---- MODULE Spec2Model ----
(***************************************************************************)
(* A model of the streaming pull parser for git fast-import streams of     *)
(* fast-export/src (parse/input.rs, parse/data.rs, parse/parser.rs,        *)
(* command.rs) and of its emitter (dump.rs).                               *)
(*                                                                         *)
(* Bytes are the naturals 0..255 and byte strings are sequences of them.   *)
(* The byte source R is an in-memory slice (&[u8], as in the crate's       *)
(* tests): Read::read returns min(requested, available) bytes and          *)
(* BufRead::fill_buf returns everything that is left.                      *)
(*                                                                         *)
(* The parser is the record `parser`; its fields are the fields of         *)
(* Parser<R>, BufInput<R>, Input<R> and DataState, flattened:              *)
(*   r, eof                 Input::r (what is left of it), Input::eof      *)
(*   lines, unread          BufInput::lines (live buffers), ::unread       *)
(*   data_opened            Parser::data_opened                            *)
(*   is_counted .. line_offset   the fields of DataState                   *)
(*   panicked               a panic unwound out of a call into the parser  *)
(* The diagnostic line counter Input::line is read by nothing and is left  *)
(* out.                                                                    *)
(*                                                                         *)
(* Integers are u64/usize of a 64-bit target.  TLC's integers are 32 bits  *)
(* wide, so a value v of the code stands here as the representative of     *)
(* v modulo 2^64 of least absolute value: all lengths of the model are     *)
(* small, and a negative number -k stands for the wrapped value 2^64 - k   *)
(* that a release build computes where a debug build panics.               *)
(***************************************************************************)
EXTENDS Integers, Sequences, FiniteSets, TLC

VARIABLES
    parser,     \* the Parser<R>, see above
    debug,      \* the build: debug assertions and overflow checks on or off
    stream,     \* the commands the input was written from (never changes)
    ncalls,     \* the number of Parser::next calls that have returned
    cmd,        \* what the last Parser::next returned
    has_reader, \* the caller holds the DataReader of the current blob
    nopen,      \* Blob::open calls since the last Parser::next
    result,     \* what the last call on the blob or its reader returned
    got,        \* the payload bytes the reader has returned for this blob
    twin,       \* a second parser, for the specifications that compare two runs
    call        \* a function of the crate called on its own: its arguments and
                \* what it returned

vars == <<parser, debug, stream, ncalls, cmd, has_reader, nopen, result, got, twin, call>>

\* Let(e, LAMBDA x : b) is b with e for x: a local name bound as an argument,
\* which TLC evaluates once and whose uses its coverage statistics do not
\* expand into the definition again
Let(e, F(_)) == F(e)

----------------------------------------------------------------------------
(* Bytes and byte strings *)

NUL == 0
LF == 10
SP == 32
HASH == 35
PLUS == 43
COLON == 58
DIGIT0 == 48

StartsWith(s, pre) == Len(s) >= Len(pre) /\ SubSeq(s, 1, Len(pre)) = pre
EndsWith(s, suf) == Len(s) >= Len(suf) /\ SubSeq(s, Len(s) - Len(suf) + 1, Len(s)) = suf
StripPrefix(s, pre) == SubSeq(s, Len(pre) + 1, Len(s))
Contains(s, b) == \E i \in 1..Len(s) : s[i] = b
\* memchr: the index of the first b in s, 0 when there is none
IndexOf(s, b) ==
    IF Contains(s, b)
    THEN CHOOSE i \in 1..Len(s) : s[i] = b /\ \A j \in 1..(i - 1) : s[j] # b
    ELSE 0
DropLast(s) == SubSeq(s, 1, Len(s) - 1)
Min(a, b) == IF a <= b THEN a ELSE b

None == [some |-> FALSE, v |-> <<>>]
Some(x) == [some |-> TRUE, v |-> x]

----------------------------------------------------------------------------
(* Input: the line-oriented reader over the byte source *)

Panic(p) == [p EXCEPT !.panicked = TRUE]
\* the panic of a debug_assert! of the input: broke names the function whose
\* assertion has failed
Broken(p, what) == [p EXCEPT !.panicked = TRUE, !.broke = what]

\* Input::read_line: appends to buf up to and including the LF; the line
\* returned is that part of buf without the LF.
read_line(p, buf) ==
    IF p.eof /\ debug
    THEN [p |-> Broken(p, "read_line"), some |-> FALSE, line |-> <<>>, buf |-> buf]
    ELSE Let(IndexOf(p.r, LF), LAMBDA i :
         Let(IF i = 0 THEN p.r ELSE SubSeq(p.r, 1, i), LAMBDA taken :
         Let(IF i = 0 THEN <<>> ELSE SubSeq(p.r, i + 1, Len(p.r)), LAMBDA rest :
             IF i # 0
             THEN [p |-> [p EXCEPT !.r = rest], some |-> TRUE,
                   line |-> SubSeq(taken, 1, i - 1), buf |-> buf \o taken]
             ELSE [p |-> [p EXCEPT !.r = rest, !.eof = TRUE], some |-> taken # <<>>,
                   line |-> taken, buf |-> buf \o taken])))

\* Input::skip_optional_lf
Input_skip_optional_lf(p) ==
    IF StartsWith(p.r, <<LF>>)
    THEN [p |-> [p EXCEPT !.r = Tail(p.r)], skipped |-> TRUE]
    ELSE [p |-> p, skipped |-> FALSE]

----------------------------------------------------------------------------
(* BufInput: one directive of lookahead over the pool of line buffers *)

CONTEXT_LINES_BEFORE == 20

\* BufPool::truncate_back
truncate_back(lines, len) ==
    IF Len(lines) > len THEN SubSeq(lines, Len(lines) - len + 1, Len(lines)) ELSE lines

\* BufInput::truncate_context
truncate_context(p) ==
    [p EXCEPT !.lines = truncate_back(p.lines,
                            CONTEXT_LINES_BEFORE + (IF p.unread THEN 1 ELSE 0))]

\* BufInput::read_directive without the test of eof
RECURSIVE read_directive_rereads(_)
read_directive_rereads(p) ==
    Let(read_line(p, <<>>), LAMBDA rl :
    Let([rl.p EXCEPT !.lines = Append(p.lines, rl.buf)], LAMBDA p1 :
        IF rl.p.panicked \/ ~rl.some THEN [p |-> p1, some |-> FALSE, line |-> <<>>]
        ELSE IF ~StartsWith(rl.line, <<HASH>>)
        THEN [p |-> p1, some |-> TRUE, line |-> rl.line]
        ELSE read_directive_rereads(p1)))

\* BufInput::read_directive: every line read, comment or not, is a buffer
\* pushed on the pool
RECURSIVE read_directive(_)
read_directive(p) ==
    IF p.eof
    THEN [p |-> p, some |-> FALSE, line |-> <<>>]
    ELSE Let(read_line(p, <<>>), LAMBDA rl :
         Let([rl.p EXCEPT !.lines = Append(p.lines, rl.buf)], LAMBDA p1 :
             IF ~rl.some THEN [p |-> p1, some |-> FALSE, line |-> <<>>]
             ELSE IF ~StartsWith(rl.line, <<HASH>>)
             THEN [p |-> p1, some |-> TRUE, line |-> rl.line]
             ELSE read_directive(p1)))

\* BufPool::back: the whole buffer at the back of the pool
back(lines) == IF Len(lines) = 0 THEN None ELSE Some(lines[Len(lines)])

\* BufInput::peek_directive
peek_directive(p) ==
    IF p.unread
    THEN Let(back(p.lines), LAMBDA b :
             [p |-> IF ~b.some /\ debug THEN Panic(p) ELSE p,
              some |-> b.some, line |-> b.v])
    ELSE Let(read_directive(p), LAMBDA rd :
             [p |-> [rd.p EXCEPT !.unread = rd.some], some |-> rd.some, line |-> rd.line])

\* bump_directive that leaves the directive unread
bump_directive_stays(p) ==
    IF debug /\ ~(p.unread \/ p.eof) THEN Broken(p, "bump_directive")
    ELSE p

\* BufInput::bump_directive
bump_directive(p) ==
    IF debug /\ ~(p.unread \/ p.eof) THEN Broken(p, "bump_directive")
    ELSE [p EXCEPT !.unread = FALSE]

\* BufInput::unread_directive
unread_directive(p) ==
    IF debug /\ ~(~p.unread /\ ~p.eof) THEN Broken(p, "unread_directive")
    ELSE [p EXCEPT !.unread = TRUE]

\* BufInput::next_directive
next_directive(p) ==
    Let(peek_directive(p), LAMBDA pk :
        IF pk.p.panicked THEN pk ELSE [pk EXCEPT !.p = bump_directive(pk.p)])

\* BufInput::parse_directive, up to the call of the parse function (input.rs
\* 365-367): whether the next directive starts with the prefix, in which case
\* it is consumed, and what follows the prefix
take_directive(p, prefix) ==
    Let(peek_directive(p), LAMBDA pk :
        IF pk.p.panicked THEN [p |-> pk.p, some |-> FALSE, arg |-> <<>>]
        ELSE IF pk.some /\ StartsWith(pk.line, prefix)
        THEN [p |-> bump_directive(pk.p), some |-> TRUE, arg |-> StripPrefix(pk.line, prefix)]
        ELSE [p |-> pk.p, some |-> FALSE, arg |-> <<>>])

\* BufInput::skip_optional_lf
BufInput_skip_optional_lf(p) ==
    IF debug /\ p.unread THEN Broken(p, "skip_optional_lf")
    ELSE Let(Input_skip_optional_lf(p), LAMBDA s :
             IF s.skipped THEN [s.p EXCEPT !.lines = Append(s.p.lines, <<>>)] ELSE s.p)

----------------------------------------------------------------------------
(* The data stream: DataState and the reads and skips of Input *)

\* DataState::new
DataState_new(p) ==
    [p EXCEPT !.is_counted = TRUE, !.len = 0, !.delim = <<>>, !.finished = FALSE,
              !.closed = FALSE, !.len_read = 0, !.line_buf = <<>>, !.line_offset = 0]

\* DataState::set without the store to data_opened
DataState_set_keeps_opened(p, header) ==
    [p EXCEPT !.is_counted = header.counted, !.len = header.len, !.delim = header.delim,
              !.finished = (header.counted /\ header.len = 0),
              !.closed = FALSE,
              !.len_read = 0]

\* DataState::set, which Parser::parse_blob applies (as data_state.init,
\* parser.rs 275) to the header [counted, len, delim] just parsed: the line
\* buffer and its offset are not among the fields it assigns
DataState_set(p, header) ==
    [p EXCEPT !.data_opened = FALSE,
              !.is_counted = header.counted, !.len = header.len, !.delim = header.delim,
              !.finished = (header.counted /\ header.len = 0),
              !.closed = FALSE,
              !.len_read = 0]

DataErr(p, e) == [p |-> p, err |-> e, n |-> 0, bytes |-> <<>>]
DataOk(p, n, bytes) == [p |-> p, err |-> "", n |-> n, bytes |-> bytes]

\* the tail of Input::read_data for delimited data (input.rs 196-201): copy
\* out of the buffered line
copy_line_buf(p, buflen) ==
    Let(p.line_offset, LAMBDA off :
    Let(Min(Len(p.line_buf) - off, buflen), LAMBDA n :
        DataOk([p EXCEPT !.line_offset = @ + n, !.len_read = @ + n],
               n, SubSeq(p.line_buf, off + 1, off + n))))

\* Input::read_data into a buffer of buflen bytes
Input_read_data(p, buflen) ==
    IF p.closed THEN DataErr(p, "Closed")
    ELSE IF buflen = 0 \/ p.finished THEN DataOk(p, 0, <<>>)
    ELSE IF p.is_counted
    THEN IF p.eof THEN DataErr(p, "DataUnexpectedEof")
         ELSE Let(Min(p.len - p.len_read, buflen), LAMBDA end :
              Let(Min(end, Len(p.r)), LAMBDA n :
              Let([p EXCEPT !.r = SubSeq(p.r, n + 1, Len(p.r)), !.len_read = @ + n], LAMBDA p1 :
                  IF p1.len_read >= p1.len
                  THEN IF debug /\ p1.len_read # p1.len THEN DataErr(Panic(p1), "panic")
                       ELSE DataOk(Input_skip_optional_lf([p1 EXCEPT !.finished = TRUE]).p,
                                   n, SubSeq(p.r, 1, n))
                  ELSE DataOk(p1, n, SubSeq(p.r, 1, n)))))
    ELSE IF p.line_offset >= Len(p.line_buf)
    THEN IF p.eof THEN DataErr(p, "UnterminatedData")
         ELSE Let(read_line(p, <<>>), LAMBDA rl :
              Let([rl.p EXCEPT !.line_buf = rl.buf, !.line_offset = 0], LAMBDA p1 :
                  IF rl.p.panicked THEN DataErr(rl.p, "panic")
                  ELSE IF ~rl.some THEN DataErr(p1, "UnterminatedData")
                  ELSE IF rl.line = p.delim
                  THEN DataOk(Input_skip_optional_lf([p1 EXCEPT !.finished = TRUE]).p, 0, <<>>)
                  ELSE IF rl.buf = <<>> THEN DataErr(p1, "UnterminatedData")
                  ELSE copy_line_buf(p1, buflen)))
    ELSE copy_line_buf(p, buflen)

SkipErr(p, e) == [p |-> p, err |-> e, n |-> 0]

\* the loop of Input::skip_data over the lines of delimited data (input.rs
\* 230-242); done: the closing delimiter was read
RECURSIVE skip_lines(_)
skip_lines(p) ==
    IF p.eof THEN [p |-> p, done |-> FALSE]
    ELSE Let(read_line(p, <<>>), LAMBDA rl :
         Let([rl.p EXCEPT !.line_buf = rl.buf], LAMBDA p1 :
             IF ~rl.some THEN [p |-> p1, done |-> FALSE]
             ELSE IF rl.line = p.delim THEN [p |-> p1, done |-> TRUE]
             ELSE skip_lines([p1 EXCEPT !.len_read = @ + Len(rl.buf)])))

\* Input::skip_data.  len_read is a u64 and the difference of line_buf.len()
\* and line_offset a usize: in a build without overflow checks they wrap, and
\* a negative len_read here stands for that number plus 2^64
Input_skip_data(p) ==
    IF p.closed THEN SkipErr(p, "Closed")
    ELSE IF p.finished THEN [p |-> p, err |-> "", n |-> 0]
    ELSE Let(p.len_read, LAMBDA start_len :
         LET finish(q) == Let(Input_skip_optional_lf([q EXCEPT !.finished = TRUE]).p, LAMBDA q1 :
                              [p |-> q1, err |-> "", n |-> q1.len_read - start_len]) IN
             IF p.is_counted
             THEN Let(Min(p.len - p.len_read, Len(p.r)), LAMBDA n :
                  Let([p EXCEPT !.r = SubSeq(p.r, n + 1, Len(p.r)), !.len_read = @ + n], LAMBDA p1 :
                      IF p1.len_read < p1.len
                      THEN SkipErr([p1 EXCEPT !.eof = TRUE], "DataUnexpectedEof")
                      ELSE finish(p1)))
             ELSE IF debug /\ p.line_offset > Len(p.line_buf) THEN SkipErr(Panic(p), "panic")
             ELSE Let([p EXCEPT !.len_read = @ + (Len(p.line_buf) - p.line_offset)], LAMBDA p1 :
                  Let(skip_lines(p1), LAMBDA sk :
                      IF sk.p.panicked THEN SkipErr(sk.p, "panic")
                      ELSE IF ~sk.done THEN SkipErr(sk.p, "UnterminatedData")
                      ELSE finish(sk.p))))

\* Input::read_counted_data_to_end that reads a line of the payload instead
\* of its len bytes
read_counted_data_line(p, len) ==
    Let(IndexOf(p.r, LF), LAMBDA i :
    Let(Min(len, IF i = 0 THEN Len(p.r) ELSE i), LAMBDA n :
    Let([p EXCEPT !.r = SubSeq(p.r, n + 1, Len(p.r))], LAMBDA p1 :
        DataOk(Input_skip_optional_lf(p1).p, n, SubSeq(p.r, 1, n)))))

\* Input::read_counted_data_to_end into an empty buffer
read_counted_data_to_end(p, len) ==
    Let(Min(len, Len(p.r)), LAMBDA n :
    Let([p EXCEPT !.r = SubSeq(p.r, n + 1, Len(p.r))], LAMBDA p1 :
        IF n < len THEN DataErr(p1, "DataUnexpectedEof")
        ELSE DataOk(Input_skip_optional_lf(p1).p, n, SubSeq(p.r, 1, n))))

\* Input::read_delimited_data_to_end that ends the data at a line that begins
\* with the delimiter
RECURSIVE read_delimited_data_prefix(_, _, _)
read_delimited_data_prefix(p, delim, buf) ==
    Let(read_line(p, buf), LAMBDA rl :
        IF rl.p.panicked THEN DataErr(rl.p, "panic")
        ELSE IF ~rl.some THEN DataErr(rl.p, "UnterminatedData")
        ELSE IF StartsWith(rl.line, delim) THEN DataOk(Input_skip_optional_lf(rl.p).p, Len(buf), buf)
        ELSE read_delimited_data_prefix(rl.p, delim, rl.buf))

\* Input::read_delimited_data_to_end into the buffer buf
RECURSIVE read_delimited_data_to_end(_, _, _)
read_delimited_data_to_end(p, delim, buf) ==
    Let(read_line(p, buf), LAMBDA rl :
        IF rl.p.panicked THEN DataErr(rl.p, "panic")
        ELSE IF ~rl.some THEN DataErr(rl.p, "UnterminatedData")
        ELSE IF rl.line = delim THEN DataOk(Input_skip_optional_lf(rl.p).p, Len(buf), buf)
        ELSE read_delimited_data_to_end(rl.p, delim, rl.buf))

\* BufInput::read_data_to_end
read_data_to_end(p, header) ==
    IF header.counted THEN read_counted_data_to_end(p, header.len)
    ELSE read_delimited_data_to_end(p, header.delim, <<>>)

\* DataStream::open that returns a reader whatever data_opened was
DataStream_open_unguarded(p) == [p |-> [p EXCEPT !.data_opened = TRUE], err |-> ""]

\* DataStream::open: data_opened.swap(true)
DataStream_open(p) ==
    [p |-> [p EXCEPT !.data_opened = TRUE],
     err |-> IF ~p.data_opened THEN "" ELSE "AlreadyOpened"]

\* DataReader::close that also marks an unfinished stream closed
DataReader_close_always(p) ==
    IF p.closed THEN [p |-> p, err |-> "Closed"]
    ELSE [p |-> [p EXCEPT !.closed = TRUE], err |-> IF p.finished THEN "" ELSE "Unfinished"]

\* DataReader::close
DataReader_close(p) ==
    IF p.closed THEN [p |-> p, err |-> "Closed"]
    ELSE IF p.finished THEN [p |-> [p EXCEPT !.closed = TRUE], err |-> ""]
    ELSE [p |-> p, err |-> "Unfinished"]

\* DataReader::read_next.  The reader's reads and skips are those of the
\* Input on the parser's DataState (BufInput::read_data and
\* BufInput::skip_data, input.rs 388-398), the ones Parser::next itself uses
\* to skip a payload that was never opened.
DataReader_read_next(p, buflen) == Input_read_data(p, buflen)

\* DataReader::skip_rest
DataReader_skip_rest(p) == Input_skip_data(p)

----------------------------------------------------------------------------
(* The keywords of the directives (parser.rs) *)

Kw ==
  [
    Blob |-> <<98, 108, 111, 98>>,   \* b"blob"
    Commit |-> <<99, 111, 109, 109, 105, 116, 32>>,   \* b"commit "
    Tag |-> <<116, 97, 103, 32>>,   \* b"tag "
    Reset |-> <<114, 101, 115, 101, 116, 32>>,   \* b"reset "
    Ls |-> <<108, 115, 32>>,   \* b"ls "
    CatBlob |-> <<99, 97, 116, 45, 98, 108, 111, 98, 32>>,   \* b"cat-blob "
    GetMark |-> <<103, 101, 116, 45, 109, 97, 114, 107, 32>>,   \* b"get-mark "
    Checkpoint |-> <<99, 104, 101, 99, 107, 112, 111, 105, 110, 116>>,   \* b"checkpoint"
    Done |-> <<100, 111, 110, 101>>,   \* b"done"
    Alias |-> <<97, 108, 105, 97, 115>>,   \* b"alias"
    Progress |-> <<112, 114, 111, 103, 114, 101, 115, 115, 32>>,   \* b"progress "
    Feature |-> <<102, 101, 97, 116, 117, 114, 101, 32>>,   \* b"feature "
    Option |-> <<111, 112, 116, 105, 111, 110, 32>>,   \* b"option "
    Mark |-> <<109, 97, 114, 107, 32>>,   \* b"mark "
    OriginalOid |-> <<111, 114, 105, 103, 105, 110, 97, 108, 45, 111, 105, 100, 32>>,   \* b"original-oid "
    Data |-> <<100, 97, 116, 97, 32>>,   \* b"data "
    Author |-> <<97, 117, 116, 104, 111, 114, 32>>,   \* b"author "
    Committer |-> <<99, 111, 109, 109, 105, 116, 116, 101, 114, 32>>,   \* b"committer "
    Encoding |-> <<101, 110, 99, 111, 100, 105, 110, 103, 32>>,   \* b"encoding "
    From |-> <<102, 114, 111, 109, 32>>,   \* b"from "
    Merge |-> <<109, 101, 114, 103, 101, 32>>,   \* b"merge "
    Tagger |-> <<116, 97, 103, 103, 101, 114, 32>>,   \* b"tagger "
    To |-> <<116, 111, 32>>,   \* b"to "
    Git |-> <<103, 105, 116, 32>>,   \* b"git "
    DelimOpen |-> <<60, 60>>   \* b"<<"
  ]

OptKw ==
  [
    MaxPackSize |-> <<109, 97, 120, 45, 112, 97, 99, 107, 45, 115, 105, 122, 101, 61>>,   \* b"max-pack-size="
    BigFileThreshold |-> <<98, 105, 103, 45, 102, 105, 108, 101, 45, 116, 104, 114, 101, 115, 104, 111, 108, 100, 61>>,   \* b"big-file-threshold="
    Depth |-> <<100, 101, 112, 116, 104, 61>>,   \* b"depth="
    ActiveBranches |-> <<97, 99, 116, 105, 118, 101, 45, 98, 114, 97, 110, 99, 104, 101, 115, 61>>,   \* b"active-branches="
    ExportPackEdges |-> <<101, 120, 112, 111, 114, 116, 45, 112, 97, 99, 107, 45, 101, 100, 103, 101, 115, 61>>,   \* b"export-pack-edges="
    Quiet |-> <<113, 117, 105, 101, 116>>,   \* b"quiet"
    Stats |-> <<115, 116, 97, 116, 115>>,   \* b"stats"
    AllowUnsafeFeatures |-> <<97, 108, 108, 111, 119, 45, 117, 110, 115, 97, 102, 101, 45, 102, 101, 97, 116, 117, 114, 101, 115>>   \* b"allow-unsafe-features"
  ]

----------------------------------------------------------------------------
(* The parsers of the values of directives (parser.rs) *)

IsDigit(b) == b >= DIGIT0 /\ b <= DIGIT0 + 9

RECURSIVE DecValue(_)
DecValue(b) == IF b = <<>> THEN 0
               ELSE 10 * DecValue(SubSeq(b, 1, Len(b) - 1)) + (b[Len(b)] - DIGIT0)

\* a number of decimal digits without its leading zeros
RECURSIVE StripZeros(_)
StripZeros(b) == IF b # <<>> /\ Head(b) = DIGIT0 THEN StripZeros(Tail(b)) ELSE b

\* a <= b, for numbers written in decimal digits without leading zeros
DecLeq(a, b) ==
    \/ Len(a) < Len(b)
    \/ /\ Len(a) = Len(b)
       /\ \/ a = b
          \/ \E i \in 1..Len(a) : a[i] < b[i] /\ \A j \in 1..(i - 1) : a[j] = b[j]

\* u64::MAX = 18446744073709551615 and u32::MAX = 4294967295, in decimal digits
U64_MAX == <<49, 56, 52, 52, 54, 55, 52, 52, 48, 55, 51, 55, 48, 57, 53, 53, 49, 54, 49, 53>>
U32_MAX == <<52, 50, 57, 52, 57, 54, 55, 50, 57, 53>>

\* parse_int::<T> without the check for a '+' sign, which T::from_str takes
parse_int_from_str(b, max) ==
    Let(IF StartsWith(b, <<PLUS>>) /\ Len(b) > 1 THEN Tail(b) ELSE b, LAMBDA digits :
        IF digits = <<>> \/ (\E i \in 1..Len(digits) : ~IsDigit(digits[i]))
        THEN [ok |-> FALSE, v |-> 0, big |-> FALSE]
        ELSE Let(StripZeros(digits), LAMBDA c :
                 IF ~DecLeq(c, max) THEN [ok |-> FALSE, v |-> 0, big |-> FALSE]
                 ELSE IF Len(c) <= 9 THEN [ok |-> TRUE, v |-> DecValue(c), big |-> FALSE]
                 ELSE [ok |-> TRUE, v |-> c, big |-> TRUE]))

\* parse_int::<T>, for the unsigned type T of greatest value max:
\* T::from_str, which takes decimal digits only (leading zeros included) and
\* fails on a value over T::MAX, after the check that refuses a '+' sign.
\* The value v is an integer of the model when it has at most nine digits;
\* a greater one (big) is kept as its decimal digits.
parse_int(b, max) ==
    IF StartsWith(b, <<PLUS>>) THEN [ok |-> FALSE, v |-> 0, big |-> FALSE]
    ELSE IF b = <<>> \/ (\E i \in 1..Len(b) : ~IsDigit(b[i]))
    THEN [ok |-> FALSE, v |-> 0, big |-> FALSE]
    ELSE Let(StripZeros(b), LAMBDA c :
             IF ~DecLeq(c, max) THEN [ok |-> FALSE, v |-> 0, big |-> FALSE]
             ELSE IF Len(c) <= 9 THEN [ok |-> TRUE, v |-> DecValue(c), big |-> FALSE]
             ELSE [ok |-> TRUE, v |-> c, big |-> TRUE])

NoneInt == [some |-> FALSE, v |-> 0]
PErr(e, dflt) == [err |-> e, v |-> dflt]
POk(x) == [err |-> "", v |-> x]

\* Mark::parse (with Mark::new)
Mark_parse(mark) ==
    IF ~StartsWith(mark, <<COLON>>) THEN PErr("MarkMissingColon", 0)
    ELSE Let(parse_int(Tail(mark), U64_MAX), LAMBDA n :
             IF ~n.ok THEN PErr("InvalidMark", 0)
             ELSE IF ~n.big /\ n.v = 0 THEN PErr("ZeroMark", 0)
             ELSE POk(n.v))

\* OriginalOid::parse
OriginalOid_parse(original_oid) == POk(original_oid)

NoObjectish == [is_mark |-> FALSE, mark |-> 0, name |-> <<>>]

\* Objectish::parse; Blobish::parse and Treeish::parse are the same code
Objectish_parse(objectish) ==
    IF StartsWith(objectish, <<COLON>>)
    THEN Let(Mark_parse(objectish), LAMBDA m :
             IF m.err # "" THEN PErr(m.err, NoObjectish)
             ELSE POk([is_mark |-> TRUE, mark |-> m.v, name |-> <<>>]))
    ELSE POk([is_mark |-> FALSE, mark |-> 0, name |-> objectish])

\* Commitish::parse
Commitish_parse(commitish) == Objectish_parse(commitish)

\* Blobish::parse
Blobish_parse(blobish) == Objectish_parse(blobish)

\* Treeish::parse
Treeish_parse(treeish) == Objectish_parse(treeish)

\* Branch::parse
Branch_parse(branch) ==
    IF Contains(branch, NUL) THEN PErr("BranchContainsNul", <<>>) ELSE POk(branch)

\* TagName::parse
TagName_parse(name) ==
    IF Contains(name, NUL) THEN PErr("TagContainsNul", <<>>) ELSE POk(name)

\* Encoding::parse
Encoding_parse(encoding) ==
    IF Contains(encoding, NUL) THEN PErr("EncodingContainsNul", <<>>) ELSE POk(encoding)

LT == 60
GT == 62
IsLtGt(b) == b = LT \/ b = GT
NoIdent == [name |-> <<>>, email |-> <<>>, date |-> <<>>]
\* the index of the first '<' or '>' of s at or after index from, 0 when none
PosLtGt(s, from) ==
    IF \E i \in from..Len(s) : IsLtGt(s[i])
    THEN CHOOSE i \in from..Len(s) : IsLtGt(s[i]) /\ \A j \in from..(i - 1) : ~IsLtGt(s[j])
    ELSE 0

\* PersonIdent::parse.  lt and gt are the code's 0-based indices; err "panic"
\* is the panic of a slice whose start lies beyond its end
PersonIdent_parse(ident) ==
    IF Contains(ident, NUL) THEN PErr("IdentContainsNul", NoIdent)
    ELSE Let(PosLtGt(ident, 1), LAMBDA l1 :
         Let(l1 - 1, LAMBDA lt :
             IF l1 = 0 THEN PErr("IdentNoLtOrGt", NoIdent)
             ELSE IF ident[l1] # LT THEN PErr("IdentNoLtBeforeGt", NoIdent)
             ELSE IF lt # 0 /\ ident[l1 - 1] # SP THEN PErr("IdentNoSpaceBeforeLt", NoIdent)
             ELSE Let(PosLtGt(ident, l1 + 1), LAMBDA g1 :
                  Let(g1 - 1, LAMBDA gt :
                  Let(IF lt >= 2 THEN lt - 2 ELSE 0, LAMBDA name_end :
                      IF g1 = 0 THEN PErr("IdentNoGtAfterLt", NoIdent)
                      ELSE IF ident[g1] # GT THEN PErr("IdentNoGtAfterLt", NoIdent)
                      ELSE IF gt + 1 >= Len(ident) \/ ident[g1 + 1] # SP
                      THEN PErr("IdentNoSpaceAfterGt", NoIdent)
                      ELSE IF lt + 1 > gt - 1 THEN PErr("panic", NoIdent)
                      ELSE POk([name |-> SubSeq(ident, 1, name_end),
                                email |-> SubSeq(ident, lt + 2, gt - 1),
                                date |-> SubSeq(ident, Min(gt + 2, Len(ident)) + 1, Len(ident))]))))))

NoHeader == [counted |-> TRUE, len |-> 0, delim |-> <<>>]

\* DataHeader::parse that takes any delimiter but the empty one
DataHeader_parse_any_delim(arg) ==
    IF StartsWith(arg, Kw.DelimOpen)
    THEN Let(StripPrefix(arg, Kw.DelimOpen), LAMBDA delim :
             IF delim = <<>> THEN PErr("EmptyDelim", NoHeader)
             ELSE POk([counted |-> FALSE, len |-> 0, delim |-> delim]))
    ELSE Let(parse_int(arg, U64_MAX), LAMBDA n :
             IF ~n.ok THEN PErr("InvalidDataLength", NoHeader)
             ELSE POk([counted |-> TRUE, len |-> n.v, delim |-> <<>>]))

\* DataHeader::parse
DataHeader_parse(arg) ==
    IF StartsWith(arg, Kw.DelimOpen)
    THEN Let(StripPrefix(arg, Kw.DelimOpen), LAMBDA delim :
             IF delim = <<>> THEN PErr("EmptyDelim", NoHeader)
             ELSE IF Contains(delim, NUL) THEN PErr("DataDelimContainsNul", NoHeader)
             ELSE POk([counted |-> FALSE, len |-> 0, delim |-> delim]))
    ELSE Let(parse_int(arg, U64_MAX), LAMBDA n :
             IF ~n.ok THEN PErr("InvalidDataLength", NoHeader)
             ELSE POk([counted |-> TRUE, len |-> n.v, delim |-> <<>>]))

NoFileSize == [value |-> 0, unit |-> "B"]

\* FileSize::parse
FileSize_parse(size) ==
    Let(IF size = <<>> THEN NUL ELSE size[Len(size)], LAMBDA last :
    Let(IF last \in {107, 75} THEN "K"
        ELSE IF last \in {109, 77} THEN "M"
        ELSE IF last \in {103, 71} THEN "G" ELSE "B", LAMBDA unit :
    Let(IF unit = "B" THEN size ELSE SubSeq(size, 1, Len(size) - 1), LAMBDA value :
    Let(parse_int(value, U32_MAX), LAMBDA n :
        IF ~n.ok THEN PErr("InvalidOptionFileSize", NoFileSize)
        ELSE POk([value |-> n.v, unit |-> unit])))))

NoOption == [opt |-> "", size |-> NoFileSize, n |-> 0, path |-> <<>>]
GitOpt(o) == [NoOption EXCEPT !.opt = o]

\* OptionGit::parse
OptionGit_parse(option) ==
    IF StartsWith(option, OptKw.MaxPackSize)
    THEN Let(FileSize_parse(StripPrefix(option, OptKw.MaxPackSize)), LAMBDA fs :
             IF fs.err # "" THEN PErr(fs.err, NoOption)
             ELSE POk([GitOpt("MaxPackSize") EXCEPT !.size = fs.v]))
    ELSE IF StartsWith(option, OptKw.BigFileThreshold)
    THEN Let(FileSize_parse(StripPrefix(option, OptKw.BigFileThreshold)), LAMBDA fs :
             IF fs.err # "" THEN PErr(fs.err, NoOption)
             ELSE POk([GitOpt("BigFileThreshold") EXCEPT !.size = fs.v]))
    ELSE IF StartsWith(option, OptKw.Depth)
    THEN Let(parse_int(StripPrefix(option, OptKw.Depth), U32_MAX), LAMBDA n :
             IF ~n.ok THEN PErr("InvalidOptionInt", NoOption)
             ELSE POk([GitOpt("Depth") EXCEPT !.n = n.v]))
    ELSE IF StartsWith(option, OptKw.ActiveBranches)
    THEN Let(parse_int(StripPrefix(option, OptKw.ActiveBranches), U32_MAX), LAMBDA n :
             IF ~n.ok THEN PErr("InvalidOptionInt", NoOption)
             ELSE POk([GitOpt("ActiveBranches") EXCEPT !.n = n.v]))
    ELSE IF StartsWith(option, OptKw.ExportPackEdges)
    THEN POk([GitOpt("ExportPackEdges") EXCEPT !.path = StripPrefix(option, OptKw.ExportPackEdges)])
    ELSE IF option = OptKw.Quiet THEN POk(GitOpt("Quiet"))
    ELSE IF option = OptKw.Stats THEN POk(GitOpt("Stats"))
    ELSE IF option = OptKw.AllowUnsafeFeatures THEN POk(GitOpt("AllowUnsafeFeatures"))
    ELSE PErr("UnrecognizedCommand", NoOption)

----------------------------------------------------------------------------
(* feature (parser.rs) *)

Ft ==
  [
    DateFormat |-> <<100, 97, 116, 101, 45, 102, 111, 114, 109, 97, 116, 61>>,   \* b"date-format="
    ImportMarks |-> <<105, 109, 112, 111, 114, 116, 45, 109, 97, 114, 107, 115, 61>>,   \* b"import-marks="
    ImportMarksIfExists |-> <<105, 109, 112, 111, 114, 116, 45, 109, 97, 114, 107, 115, 45, 105, 102, 45, 101, 120, 105, 115, 116, 115, 61>>,   \* b"import-marks-if-exists="
    ExportMarks |-> <<101, 120, 112, 111, 114, 116, 45, 109, 97, 114, 107, 115, 61>>,   \* b"export-marks="
    Alias |-> <<97, 108, 105, 97, 115>>,   \* b"alias"
    RewriteSubmodulesTo |-> <<114, 101, 119, 114, 105, 116, 101, 45, 115, 117, 98, 109, 111, 100, 117, 108, 101, 115, 45, 116, 111, 61>>,   \* b"rewrite-submodules-to="
    RewriteSubmodulesFrom |-> <<114, 101, 119, 114, 105, 116, 101, 45, 115, 117, 98, 109, 111, 100, 117, 108, 101, 115, 45, 102, 114, 111, 109, 61>>,   \* b"rewrite-submodules-from="
    GetMark |-> <<103, 101, 116, 45, 109, 97, 114, 107>>,   \* b"get-mark"
    CatBlob |-> <<99, 97, 116, 45, 98, 108, 111, 98>>,   \* b"cat-blob"
    RelativeMarks |-> <<114, 101, 108, 97, 116, 105, 118, 101, 45, 109, 97, 114, 107, 115>>,   \* b"relative-marks"
    NoRelativeMarks |-> <<110, 111, 45, 114, 101, 108, 97, 116, 105, 118, 101, 45, 109, 97, 114, 107, 115>>,   \* b"no-relative-marks"
    Done |-> <<100, 111, 110, 101>>,   \* b"done"
    Force |-> <<102, 111, 114, 99, 101>>,   \* b"force"
    Notes |-> <<110, 111, 116, 101, 115>>,   \* b"notes"
    Ls |-> <<108, 115>>   \* b"ls"
  ]
Df ==
  [
    Raw |-> <<114, 97, 119>>,   \* b"raw"
    RawPermissive |-> <<114, 97, 119, 45, 112, 101, 114, 109, 105, 115, 115, 105, 118, 101>>,   \* b"raw-permissive"
    Rfc2822 |-> <<114, 102, 99, 50, 56, 50, 50>>,   \* b"rfc2822"
    Now |-> <<110, 111, 119>>   \* b"now"
  ]

NoFeature == [feature |-> "", format |-> "", path |-> <<>>, ignore_missing |-> FALSE,
              submodule_name |-> <<>>, marks_path |-> <<>>, relative |-> FALSE,
              other |-> <<>>]
Feat(f) == [NoFeature EXCEPT !.feature = f]

\* DateFormat::parse
DateFormat_parse(format) ==
    IF format = Df.Raw THEN POk("Raw")
    ELSE IF format = Df.RawPermissive THEN POk("RawPermissive")
    ELSE IF format = Df.Rfc2822 THEN POk("Rfc2822")
    ELSE IF format = Df.Now THEN POk("Now")
    ELSE PErr("InvalidDateFormat", "")

\* FastImportPath::parse
FastImportPath_parse(path) ==
    IF Contains(path, NUL) THEN PErr("PathContainsNul", <<>>) ELSE POk(path)

\* parse_rewrite_submodules: split_at(colon) leaves the colon at the head of
\* the second part
parse_rewrite_submodules(args) ==
    IF Contains(args, NUL)
    THEN PErr("RewriteSubmodulesContainsNul", [submodule_name |-> <<>>, marks_path |-> <<>>])
    ELSE Let(IndexOf(args, COLON), LAMBDA colon :
             IF colon = 0
             THEN PErr("RewriteSubmodulesNoColon", [submodule_name |-> <<>>, marks_path |-> <<>>])
             ELSE POk([submodule_name |-> SubSeq(args, 1, colon - 1),
                       marks_path |-> SubSeq(args, colon, Len(args))]))

\* Feature::parse
Feature_parse(feature) ==
    IF StartsWith(feature, Ft.DateFormat)
    THEN Let(DateFormat_parse(StripPrefix(feature, Ft.DateFormat)), LAMBDA f :
             IF f.err # "" THEN PErr(f.err, NoFeature)
             ELSE POk([Feat("DateFormat") EXCEPT !.format = f.v]))
    ELSE IF StartsWith(feature, Ft.ImportMarks)
    THEN Let(FastImportPath_parse(StripPrefix(feature, Ft.ImportMarks)), LAMBDA f :
             IF f.err # "" THEN PErr(f.err, NoFeature)
             ELSE POk([Feat("ImportMarks") EXCEPT !.path = f.v, !.ignore_missing = FALSE]))
    ELSE IF StartsWith(feature, Ft.ImportMarksIfExists)
    THEN Let(FastImportPath_parse(StripPrefix(feature, Ft.ImportMarksIfExists)), LAMBDA f :
             IF f.err # "" THEN PErr(f.err, NoFeature)
             ELSE POk([Feat("ImportMarks") EXCEPT !.path = f.v, !.ignore_missing = TRUE]))
    ELSE IF StartsWith(feature, Ft.ExportMarks)
    THEN Let(FastImportPath_parse(StripPrefix(feature, Ft.ExportMarks)), LAMBDA f :
             IF f.err # "" THEN PErr(f.err, NoFeature)
             ELSE POk([Feat("ExportMarks") EXCEPT !.path = f.v]))
    ELSE IF feature = Ft.Alias THEN POk(Feat("Alias"))
    ELSE IF StartsWith(feature, Ft.RewriteSubmodulesTo)
    THEN Let(parse_rewrite_submodules(StripPrefix(feature, Ft.RewriteSubmodulesTo)), LAMBDA f :
             IF f.err # "" THEN PErr(f.err, NoFeature)
             ELSE POk([Feat("RewriteSubmodulesTo") EXCEPT
                          !.submodule_name = f.v.submodule_name, !.marks_path = f.v.marks_path]))
    ELSE IF StartsWith(feature, Ft.RewriteSubmodulesFrom)
    THEN Let(parse_rewrite_submodules(StripPrefix(feature, Ft.RewriteSubmodulesFrom)), LAMBDA f :
             IF f.err # "" THEN PErr(f.err, NoFeature)
             ELSE POk([Feat("RewriteSubmodulesFrom") EXCEPT
                          !.submodule_name = f.v.submodule_name, !.marks_path = f.v.marks_path]))
    ELSE IF feature = Ft.GetMark THEN POk(Feat("GetMark"))
    ELSE IF feature = Ft.CatBlob THEN POk(Feat("CatBlob"))
    ELSE IF feature = Ft.RelativeMarks THEN POk([Feat("RelativeMarks") EXCEPT !.relative = TRUE])
    ELSE IF feature = Ft.NoRelativeMarks THEN POk([Feat("RelativeMarks") EXCEPT !.relative = FALSE])
    ELSE IF feature = Ft.Done THEN POk(Feat("Done"))
    ELSE IF feature = Ft.Force THEN POk(Feat("Force"))
    ELSE IF feature = Ft.Notes THEN POk(Feat("Notes"))
    ELSE IF feature = Ft.Ls THEN POk(Feat("Ls"))
    ELSE POk([Feat("Other") EXCEPT !.other = feature])

----------------------------------------------------------------------------
(* C-style string literals (quote.rs) *)

DQUOTE == 34
BACKSLASH == 92

\* memchr2(b'"', b'\\', &s[i..]) for the 0-based i: the index found, which
\* counts from i, or -1
memchr2_quote(s, i) ==
    IF \E k \in (i + 1)..Len(s) : s[k] \in {DQUOTE, BACKSLASH}
    THEN (CHOOSE k \in (i + 1)..Len(s) :
              s[k] \in {DQUOTE, BACKSLASH}
              /\ \A m \in (i + 1)..(k - 1) : s[m] \notin {DQUOTE, BACKSLASH}) - 1 - i
    ELSE -1

QErr(e) == [err |-> e, v |-> <<>>, rest |-> <<>>]

\* the escape at the 0-based index j of s (quote.rs 49-73): the byte it
\* stands for and the index of its last byte
unquote_escape(s, j) ==
    Let(s[j + 1], LAMBDA c :
        IF c = 97 THEN [err |-> "", ch |-> 7, j |-> j]
        ELSE IF c = 98 THEN [err |-> "", ch |-> 8, j |-> j]
        ELSE IF c = 102 THEN [err |-> "", ch |-> 12, j |-> j]
        ELSE IF c = 110 THEN [err |-> "", ch |-> 10, j |-> j]
        ELSE IF c = 114 THEN [err |-> "", ch |-> 13, j |-> j]
        ELSE IF c = 116 THEN [err |-> "", ch |-> 9, j |-> j]
        ELSE IF c = 118 THEN [err |-> "", ch |-> 11, j |-> j]
        ELSE IF c \in {BACKSLASH, DQUOTE} THEN [err |-> "", ch |-> c, j |-> j]
        ELSE IF c \in 48..51
        THEN IF j + 2 >= Len(s) THEN [err |-> "Unterminated", ch |-> 0, j |-> j]
             ELSE Let(s[j + 2], LAMBDA o2 :
                  Let(s[j + 3], LAMBDA o3 :
                      IF o2 \in 48..55 /\ o3 \in 48..55
                      THEN [err |-> "", ch |-> (c - 48) * 64 + (o2 - 48) * 8 + (o3 - 48),
                            j |-> j + 2]
                      ELSE [err |-> "InvalidOctalDigit", ch |-> 0, j |-> j]))
        ELSE IF c \in 52..55 THEN [err |-> "OctalOverflow", ch |-> 0, j |-> j]
        ELSE [err |-> "InvalidEscape", ch |-> 0, j |-> j])

\* the loop of unquote_c_style_string (quote.rs 36-82), i and j 0-based; a
\* slice s[i..j] with i > j or j > len, an index beyond the end and
\* unreachable!() all panic
RECURSIVE unquote_loop(_, _, _, _)
unquote_loop(s, buf, i, j) ==
    IF i > j \/ j >= Len(s) THEN QErr("panic")
    ELSE Let(buf \o SubSeq(s, i + 1, j), LAMBDA buf1 :
             IF s[j + 1] = DQUOTE
             THEN [err |-> "", v |-> buf1, rest |-> SubSeq(s, j + 2, Len(s))]
             ELSE IF s[j + 1] = BACKSLASH
             THEN IF j + 1 >= Len(s) THEN QErr("Unterminated")
                  ELSE Let(unquote_escape(s, j + 1), LAMBDA e :
                       Let(e.j + 1, LAMBDA i2 :
                       Let(memchr2_quote(s, i2), LAMBDA j2 :
                           IF e.err # "" THEN QErr(e.err)
                           ELSE IF j2 < 0 THEN QErr("Unterminated")
                           ELSE unquote_loop(s, Append(buf1, e.ch), i2, j2))))
             ELSE QErr("panic"))

\* BufPool::unquote_c_style_string
unquote_c_style_string(s) ==
    IF s = <<>> \/ s[1] # DQUOTE THEN QErr("panic")
    ELSE Let(memchr2_quote(s, 1), LAMBDA j :
             IF j < 0 THEN QErr("Unterminated")
             ELSE IF s[j + 1] = DQUOTE
             THEN IF 1 > j THEN QErr("panic")
                  ELSE [err |-> "", v |-> SubSeq(s, 2, j), rest |-> SubSeq(s, j + 2, Len(s))]
             ELSE unquote_loop(s, <<>>, 1, j))

----------------------------------------------------------------------------
(* The command parsers (parser.rs) *)

\* BufInput::parse_directive with its parse function; dflt is the value that
\* stands for None
parse_directive(p, prefix, parse(_), dflt) ==
    Let(take_directive(p, prefix), LAMBDA d :
        IF ~d.some THEN [p |-> d.p, err |-> "", some |-> FALSE, v |-> dflt]
        ELSE Let(parse(d.arg), LAMBDA x :
                 [p |-> d.p, err |-> x.err, some |-> x.err = "", v |-> IF x.err = "" THEN x.v ELSE dflt]))

\* BufInput::parse_directive_many, as Parser::parse_commit calls it: for
\* b"merge " and Commitish::parse
RECURSIVE parse_directive_many(_, _)
parse_directive_many(p, acc) ==
    Let(parse_directive(p, Kw.Merge, Commitish_parse, NoObjectish), LAMBDA d :
        IF d.err # "" THEN [p |-> d.p, err |-> d.err, v |-> acc]
        ELSE IF ~d.some THEN [p |-> d.p, err |-> "", v |-> acc]
        ELSE parse_directive_many(d.p, Append(acc, d.v)))

Opt(d) == [some |-> d.some, v |-> d.v]
NoCommand == [kind |-> "None"]
CmdErr(p, e) == [p |-> p, err |-> e, c |-> NoCommand]
CmdOk(p, c) == [p |-> p, err |-> "", c |-> c]

\* Parser::parse_data_small: the message is read into a buffer of its own
parse_data_small(p) ==
    Let(parse_directive(p, Kw.Data, DataHeader_parse, NoHeader), LAMBDA d :
        IF d.err # "" THEN [p |-> d.p, err |-> d.err, some |-> FALSE, v |-> <<>>]
        ELSE IF ~d.some THEN [p |-> d.p, err |-> "", some |-> FALSE, v |-> <<>>]
        ELSE Let(read_data_to_end(d.p, d.v), LAMBDA m :
                 [p |-> m.p, err |-> m.err, some |-> m.err = "", v |-> m.bytes]))

\* Parser::parse_blob that skips an LF after the data header line
parse_blob_skips_lf(p) ==
    Let(parse_directive(p, Kw.Mark, Mark_parse, 0), LAMBDA mark :
    Let(parse_directive(mark.p, Kw.OriginalOid, OriginalOid_parse, <<>>), LAMBDA original_oid :
    Let(parse_directive(original_oid.p, Kw.Data, DataHeader_parse, NoHeader), LAMBDA data_header :
        IF mark.err # "" THEN CmdErr(mark.p, mark.err)
        ELSE IF original_oid.err # "" THEN CmdErr(original_oid.p, original_oid.err)
        ELSE IF data_header.err # "" THEN CmdErr(data_header.p, data_header.err)
        ELSE IF ~data_header.some THEN CmdErr(data_header.p, "ExpectedBlobData")
        ELSE CmdOk(BufInput_skip_optional_lf(DataState_set(data_header.p, data_header.v)),
                   [kind |-> "Blob", mark |-> Opt(mark), original_oid |-> Opt(original_oid),
                    data_header |-> data_header.v]))))

\* Parser::parse_blob
parse_blob(p) ==
    Let(parse_directive(p, Kw.Mark, Mark_parse, 0), LAMBDA mark :
    Let(parse_directive(mark.p, Kw.OriginalOid, OriginalOid_parse, <<>>), LAMBDA original_oid :
    Let(parse_directive(original_oid.p, Kw.Data, DataHeader_parse, NoHeader), LAMBDA data_header :
        IF mark.err # "" THEN CmdErr(mark.p, mark.err)
        ELSE IF original_oid.err # "" THEN CmdErr(original_oid.p, original_oid.err)
        ELSE IF data_header.err # "" THEN CmdErr(data_header.p, data_header.err)
        ELSE IF ~data_header.some THEN CmdErr(data_header.p, "ExpectedBlobData")
        ELSE CmdOk(DataState_set(data_header.p, data_header.v),
                   [kind |-> "Blob", mark |-> Opt(mark), original_oid |-> Opt(original_oid),
                    data_header |-> data_header.v]))))

\* Parser::parse_commit
parse_commit(p, branch_arg) ==
    Let(Branch_parse(branch_arg), LAMBDA branch :
    Let(parse_directive(p, Kw.Mark, Mark_parse, 0), LAMBDA mark :
    Let(parse_directive(mark.p, Kw.OriginalOid, OriginalOid_parse, <<>>), LAMBDA original_oid :
    Let(parse_directive(original_oid.p, Kw.Author, PersonIdent_parse, NoIdent), LAMBDA author :
    Let(parse_directive(author.p, Kw.Committer, PersonIdent_parse, NoIdent), LAMBDA committer :
    Let(parse_directive(committer.p, Kw.Encoding, Encoding_parse, <<>>), LAMBDA encoding :
    Let(parse_data_small(encoding.p), LAMBDA message :
    Let(parse_directive(message.p, Kw.From, Commitish_parse, NoObjectish), LAMBDA from :
    Let(parse_directive_many(from.p, <<>>), LAMBDA merge :
        IF branch.err # "" THEN CmdErr(p, branch.err)
        ELSE IF mark.err # "" THEN CmdErr(mark.p, mark.err)
        ELSE IF original_oid.err # "" THEN CmdErr(original_oid.p, original_oid.err)
        ELSE IF author.err # "" THEN CmdErr(author.p, author.err)
        ELSE IF committer.err # "" THEN CmdErr(committer.p, committer.err)
        ELSE IF ~committer.some THEN CmdErr(committer.p, "ExpectedCommitCommitter")
        ELSE IF encoding.err # "" THEN CmdErr(encoding.p, encoding.err)
        ELSE IF message.err # "" THEN CmdErr(message.p, message.err)
        ELSE IF ~message.some THEN CmdErr(message.p, "ExpectedCommitMessage")
        ELSE IF from.err # "" THEN CmdErr(from.p, from.err)
        ELSE IF merge.err # "" THEN CmdErr(merge.p, merge.err)
        ELSE CmdOk(merge.p,
                   [kind |-> "Commit", branch |-> branch.v, mark |-> Opt(mark),
                    original_oid |-> Opt(original_oid), author |-> Opt(author),
                    committer |-> committer.v, encoding |-> Opt(encoding),
                    message |-> message.v, from |-> Opt(from), merge |-> merge.v]))))))))))

\* Parser::parse_tag
parse_tag(p, name_arg) ==
    Let(TagName_parse(name_arg), LAMBDA name :
    Let(parse_directive(p, Kw.Mark, Mark_parse, 0), LAMBDA mark :
    Let(parse_directive(mark.p, Kw.From, Objectish_parse, NoObjectish), LAMBDA from :
    Let(parse_directive(from.p, Kw.OriginalOid, OriginalOid_parse, <<>>), LAMBDA original_oid :
    Let(parse_directive(original_oid.p, Kw.Tagger, PersonIdent_parse, NoIdent), LAMBDA tagger :
    Let(parse_data_small(tagger.p), LAMBDA message :
        IF name.err # "" THEN CmdErr(p, name.err)
        ELSE IF mark.err # "" THEN CmdErr(mark.p, mark.err)
        ELSE IF from.err # "" THEN CmdErr(from.p, from.err)
        ELSE IF ~from.some THEN CmdErr(from.p, "ExpectedTagFrom")
        ELSE IF original_oid.err # "" THEN CmdErr(original_oid.p, original_oid.err)
        ELSE IF tagger.err # "" THEN CmdErr(tagger.p, tagger.err)
        ELSE IF message.err # "" THEN CmdErr(message.p, message.err)
        ELSE IF ~message.some THEN CmdErr(message.p, "ExpectedTagMessage")
        ELSE CmdOk(message.p,
                   [kind |-> "Tag", name |-> name.v, mark |-> Opt(mark), from |-> from.v,
                    original_oid |-> Opt(original_oid), tagger |-> Opt(tagger),
                    message |-> message.v])))))))

\* Parser::parse_reset
parse_reset(p, branch_arg) ==
    Let(Branch_parse(branch_arg), LAMBDA branch :
    Let(parse_directive(p, Kw.From, Commitish_parse, NoObjectish), LAMBDA from :
        IF branch.err # "" THEN CmdErr(p, branch.err)
        ELSE IF from.err # "" THEN CmdErr(from.p, from.err)
        ELSE CmdOk(from.p, [kind |-> "Reset", branch |-> branch.v, from |-> Opt(from)])))

\* parse_ls (the free function), for a path that may be quoted
parse_ls(args, in_commit) ==
    Let([has_root |-> FALSE, root |-> NoObjectish, path |-> <<>>], LAMBDA NoLs :
    Let(IndexOf(args, SP), LAMBDA i :
    Let(args # <<>> /\ args[1] = DQUOTE, LAMBDA quoted_first :
    Let(IF quoted_first THEN POk(NoObjectish) ELSE Treeish_parse(SubSeq(args, 1, i - 1)), LAMBDA root :
    Let(IF quoted_first THEN args ELSE SubSeq(args, i, Len(args)), LAMBDA path :
    Let(unquote_c_style_string(path), LAMBDA q :
        IF args = <<>> THEN PErr("MissingLsPath", NoLs)
        ELSE IF quoted_first /\ ~in_commit THEN PErr("MissingLsRoot", NoLs)
        ELSE IF ~quoted_first /\ i = 0 THEN PErr("MissingLsPath", NoLs)
        ELSE IF root.err # "" THEN PErr(root.err, NoLs)
        ELSE IF path = <<>> THEN PErr("MissingLsPath", NoLs)
        ELSE IF path[1] # DQUOTE
        THEN POk([has_root |-> ~quoted_first, root |-> root.v, path |-> path])
        ELSE IF q.err = "panic" THEN PErr("panic", NoLs)
        ELSE IF q.err # "" THEN PErr("LsPathString", NoLs)
        ELSE IF q.rest # <<>> THEN PErr("JunkAfterLsPath", NoLs)
        ELSE POk([has_root |-> ~quoted_first, root |-> root.v, path |-> q.v])))))))

\* Parser::parse_ls
Parser_parse_ls(p, args) ==
    Let(parse_ls(args, FALSE), LAMBDA ls :
        IF ls.err # "" THEN CmdErr(p, ls.err)
        ELSE CmdOk(p, [kind |-> "Ls", root |-> ls.v.root, path |-> ls.v.path]))

\* Parser::parse_cat_blob
parse_cat_blob(p, data_ref) ==
    Let(Blobish_parse(data_ref), LAMBDA blob :
        IF blob.err # "" THEN CmdErr(p, blob.err)
        ELSE CmdOk(p, [kind |-> "CatBlob", blob |-> blob.v]))

\* Parser::parse_get_mark
parse_get_mark(p, mark_arg) ==
    Let(Mark_parse(mark_arg), LAMBDA mark :
        IF mark.err # "" THEN CmdErr(p, mark.err)
        ELSE CmdOk(p, [kind |-> "GetMark", mark |-> mark.v]))

\* Parser::parse_checkpoint
parse_checkpoint(p) == CmdOk(BufInput_skip_optional_lf(p), [kind |-> "Checkpoint"])

\* Parser::parse_alias
parse_alias(p) ==
    Let(parse_directive(BufInput_skip_optional_lf(p), Kw.Mark, Mark_parse, 0), LAMBDA mark :
    Let(parse_directive(mark.p, Kw.To, Commitish_parse, NoObjectish), LAMBDA to :
        IF mark.err # "" THEN CmdErr(mark.p, mark.err)
        ELSE IF ~mark.some THEN CmdErr(mark.p, "ExpectedAliasMark")
        ELSE IF to.err # "" THEN CmdErr(to.p, to.err)
        ELSE IF ~to.some THEN CmdErr(to.p, "ExpectedAliasTo")
        ELSE CmdOk(to.p, [kind |-> "Alias", mark |-> mark.v, to |-> to.v])))

\* Parser::parse_progress
parse_progress(p, message) ==
    CmdOk(BufInput_skip_optional_lf(p), [kind |-> "Progress", message |-> message])

\* Parser::parse_feature
parse_feature(p, feature) ==
    Let(Feature_parse(feature), LAMBDA f :
        IF f.err # "" THEN CmdErr(p, f.err)
        ELSE CmdOk(p, [kind |-> "Feature", feature |-> f.v]))

\* Parser::parse_option
parse_option(p, option) ==
    IF StartsWith(option, Kw.Git)
    THEN Let(OptionGit_parse(StripPrefix(option, Kw.Git)), LAMBDA g :
             IF g.err # "" THEN CmdErr(p, g.err)
             ELSE CmdOk(p, [kind |-> "Option", git |-> TRUE, option |-> g.v, other |-> <<>>]))
    ELSE CmdOk(p, [kind |-> "Option", git |-> FALSE, option |-> NoOption, other |-> option])

\* the dispatch of Parser::next on the directive read (parser.rs 233-263)
parse_command(p, line) ==
    IF line = Kw.Blob THEN parse_blob(p)
    ELSE IF StartsWith(line, Kw.Commit) THEN parse_commit(p, StripPrefix(line, Kw.Commit))
    ELSE IF StartsWith(line, Kw.Tag) THEN parse_tag(p, StripPrefix(line, Kw.Tag))
    ELSE IF StartsWith(line, Kw.Reset) THEN parse_reset(p, StripPrefix(line, Kw.Reset))
    ELSE IF StartsWith(line, Kw.Ls) THEN Parser_parse_ls(p, StripPrefix(line, Kw.Ls))
    ELSE IF StartsWith(line, Kw.CatBlob) THEN parse_cat_blob(p, StripPrefix(line, Kw.CatBlob))
    ELSE IF StartsWith(line, Kw.GetMark) THEN parse_get_mark(p, StripPrefix(line, Kw.GetMark))
    ELSE IF line = Kw.Checkpoint THEN parse_checkpoint(p)
    ELSE IF line = Kw.Done THEN CmdOk(p, [kind |-> "Done", done |-> "Explicit"])
    ELSE IF line = Kw.Alias THEN parse_alias(p)
    ELSE IF StartsWith(line, Kw.Progress) THEN parse_progress(p, StripPrefix(line, Kw.Progress))
    ELSE IF StartsWith(line, Kw.Feature) THEN parse_feature(p, StripPrefix(line, Kw.Feature))
    ELSE IF StartsWith(line, Kw.Option) THEN parse_option(p, StripPrefix(line, Kw.Option))
    ELSE IF line = <<>> THEN CmdErr(p, "UnexpectedBlank")
    ELSE CmdErr(p, "UnrecognizedCommand")

\* Parser::next that skips the data stream before it looks whether a reader
\* is open
Parser_next_body_skips_first(p) ==
    Let(~p.finished, LAMBDA unfinished :
    Let(IF unfinished THEN Input_skip_data(p)
        ELSE [p |-> p, err |-> "", n |-> 0], LAMBDA sk :
    Let(next_directive(truncate_context(sk.p)), LAMBDA d :
        IF unfinished /\ p.data_opened THEN CmdErr(sk.p, "Unfinished")
        ELSE IF sk.err # "" THEN CmdErr(sk.p, sk.err)
        ELSE IF d.p.panicked THEN CmdErr(d.p, "panic")
        ELSE IF ~d.some THEN CmdOk(d.p, [kind |-> "Done", done |-> "Eof"])
        ELSE parse_command(d.p, d.line))))

\* Parser::next, but for a panic
Parser_next_body(p) ==
    Let(~p.finished, LAMBDA unfinished :
    Let(IF unfinished /\ ~p.data_opened THEN Input_skip_data(p)
        ELSE [p |-> p, err |-> "", n |-> 0], LAMBDA sk :
    Let(next_directive(truncate_context(sk.p)), LAMBDA d :
        IF unfinished /\ p.data_opened THEN CmdErr(p, "Unfinished")
        ELSE IF sk.err # "" THEN CmdErr(sk.p, sk.err)
        ELSE IF d.p.panicked THEN CmdErr(d.p, "panic")
        ELSE IF ~d.some THEN CmdOk(d.p, [kind |-> "Done", done |-> "Eof"])
        ELSE parse_command(d.p, d.line))))

\* Parser::next; a panic anywhere in it unwinds out of the call
Parser_next(p) ==
    Let(Parser_next_body(p), LAMBDA o :
        IF o.err = "panic" \/ o.p.panicked THEN CmdErr(Panic(o.p), "panic") ELSE o)

----------------------------------------------------------------------------
(* The changes of a commit (commit.rs) *)

U16_MAX == 65535
OctDigits(b) == b # <<>> /\ \A i \in 1..Len(b) : b[i] \in 48..55
RECURSIVE OctValue(_)
OctValue(b) == IF b = <<>> THEN 0 ELSE OctValue(DropLast(b)) * 8 + (b[Len(b)] - 48)

\* Mode::parse: u16::from_str_radix(mode, 8) takes a '+' sign and octal
\* digits, and fails on a value over u16::MAX
Mode_parse(mode) ==
    Let(IF StartsWith(mode, <<PLUS>>) THEN Tail(mode) ELSE mode, LAMBDA digits :
        IF ~OctDigits(digits) \/ OctValue(StripZeros(digits)) > U16_MAX
        THEN PErr("InvalidModeInt", "")
        ELSE Let(OctValue(StripZeros(digits)), LAMBDA m :
                 IF m \in {33188, 420} THEN POk("File")
                 ELSE IF m \in {33261, 493} THEN POk("Exe")
                 ELSE IF m = 40960 THEN POk("SymLink")
                 ELSE IF m = 57344 THEN POk("GitLink")
                 ELSE IF m = 16384 THEN POk("Dir")
                 ELSE PErr("InvalidMode", "")))

\* split_at_space
split_at_space(b) ==
    Let(IndexOf(b, SP), LAMBDA i :
        IF i = 0 THEN [some |-> FALSE, v |-> <<>>, rest |-> <<>>]
        ELSE [some |-> TRUE, v |-> SubSeq(b, 1, i - 1), rest |-> SubSeq(b, i + 1, Len(b))])

Inline == <<105, 110, 108, 105, 110, 101>>   \* b"inline"
NoDataRef == [kind |-> "Inline", mark |-> 0, oid |-> <<>>]

\* DataRef::parse
DataRef_parse(data_ref) ==
    IF data_ref = Inline THEN POk(NoDataRef)
    ELSE IF StartsWith(data_ref, <<COLON>>)
    THEN Let(Mark_parse(data_ref), LAMBDA m :
             IF m.err # "" THEN PErr(m.err, NoDataRef)
             ELSE POk([kind |-> "Mark", mark |-> m.v, oid |-> <<>>]))
    ELSE POk([kind |-> "Oid", mark |-> 0, oid |-> data_ref])

\* ChangeIter::unquote_space: err is "panic" where unquote_c_style_string
\* panics, and some is FALSE for None
unquote_space(s) ==
    Let(unquote_c_style_string(s), LAMBDA q :
        IF q.err = "panic" THEN [err |-> "panic", some |-> FALSE, v |-> <<>>, rest |-> <<>>]
        ELSE IF q.err = ""
        THEN IF ~StartsWith(q.rest, <<SP>>)
             THEN [err |-> "", some |-> FALSE, v |-> <<>>, rest |-> <<>>]
             ELSE [err |-> "", some |-> TRUE, v |-> q.v, rest |-> Tail(q.rest)]
        ELSE [err |-> ""] @@ split_at_space(s))

\* ChangeIter::unquote_eol
unquote_eol(s) ==
    Let(unquote_c_style_string(s), LAMBDA q :
        IF q.err = "panic" THEN [err |-> "panic", some |-> FALSE, v |-> <<>>]
        ELSE IF q.err = ""
        THEN IF q.rest # <<>> THEN [err |-> "", some |-> FALSE, v |-> <<>>]
             ELSE [err |-> "", some |-> TRUE, v |-> q.v]
        ELSE [err |-> "", some |-> TRUE, v |-> s])

NoChange == [kind |-> "None"]
Mode644 == <<54, 52, 52>>   \* b"644"

\* ChangeIter::parse_file_modify
parse_file_modify(args) ==
    Let(split_at_space(args), LAMBDA a :
    Let(Mode_parse(a.v), LAMBDA mode :
    Let(split_at_space(a.rest), LAMBDA b :
    Let(DataRef_parse(b.v), LAMBDA data_ref :
    Let(unquote_eol(b.rest), LAMBDA path :
        IF ~a.some THEN PErr("NoSpaceAfterMode", NoChange)
        ELSE IF mode.err # "" THEN PErr(mode.err, NoChange)
        ELSE IF ~b.some THEN PErr("NoSpaceAfterDataRef", NoChange)
        ELSE IF data_ref.err # "" THEN PErr(data_ref.err, NoChange)
        ELSE IF path.err # "" THEN PErr(path.err, NoChange)
        ELSE IF ~path.some THEN PErr("JunkAfterFileModifyPath", NoChange)
        ELSE POk([kind |-> "FileModify", data_ref |-> data_ref.v, mode |-> mode.v,
                  path |-> path.v]))))))

\* ChangeIter::parse_file_delete
parse_file_delete(path_arg) ==
    Let(unquote_eol(path_arg), LAMBDA path :
        IF path.err # "" THEN PErr(path.err, NoChange)
        ELSE IF ~path.some THEN PErr("JunkAfterFileDeletePath", NoChange)
        ELSE POk([kind |-> "FileDelete", path |-> path.v]))

\* ChangeIter::parse_file_rename_copy, and the change of the kind given that
\* parse_file_rename and parse_file_copy make of its result
parse_file_rename_copy(paths, kind) ==
    Let(unquote_space(paths), LAMBDA source :
    Let(unquote_eol(source.rest), LAMBDA dest :
        IF source.err # "" THEN PErr(source.err, NoChange)
        ELSE IF ~source.some THEN PErr("NoSpaceAfterSource", NoChange)
        ELSE IF source.rest = <<>> THEN PErr("MissingDest", NoChange)
        ELSE IF dest.err # "" THEN PErr(dest.err, NoChange)
        ELSE IF ~dest.some THEN PErr("JunkAfterDest", NoChange)
        ELSE POk([kind |-> kind, source |-> source.v, dest |-> dest.v])))

\* ChangeIter::parse_note_modify
parse_note_modify(args) ==
    Let(split_at_space(args), LAMBDA a :
    Let(DataRef_parse(a.v), LAMBDA data_ref :
    Let(Commitish_parse(a.rest), LAMBDA commit :
        IF ~a.some THEN PErr("NoSpaceAfterDataRef", NoChange)
        ELSE IF data_ref.err # "" THEN PErr(data_ref.err, NoChange)
        ELSE IF commit.err # "" THEN PErr(commit.err, NoChange)
        ELSE POk([kind |-> "NoteModify", data_ref |-> data_ref.v, commit |-> commit.v]))))

\* ChangeIter::parse_ls
ChangeIter_parse_ls(args) ==
    Let(parse_ls(args, TRUE), LAMBDA ls :
        IF ls.err # "" THEN PErr(ls.err, NoChange)
        ELSE POk([kind |-> "Ls", root |-> [some |-> ls.v.has_root, v |-> ls.v.root],
                  path |-> ls.v.path]))

\* ChangeIter::parse_cat_blob
ChangeIter_parse_cat_blob(data_ref) ==
    Let(Blobish_parse(data_ref), LAMBDA blob :
        IF blob.err # "" THEN PErr(blob.err, NoChange)
        ELSE POk([kind |-> "CatBlob", blob |-> blob.v]))

ChangeKw ==
    [M |-> <<77, SP>>, D |-> <<68, SP>>, R |-> <<82, SP>>, C |-> <<67, SP>>,
     N |-> <<78, SP>>,
     DeleteAll |-> <<100, 101, 108, 101, 116, 101, 97, 108, 108>>]

\* the change that ChangeIter::next makes of a line that is a change
parse_change(line) ==
    IF StartsWith(line, ChangeKw.M) THEN parse_file_modify(StripPrefix(line, ChangeKw.M))
    ELSE IF StartsWith(line, ChangeKw.D) THEN parse_file_delete(StripPrefix(line, ChangeKw.D))
    ELSE IF StartsWith(line, ChangeKw.R)
    THEN parse_file_rename_copy(StripPrefix(line, ChangeKw.R), "FileRename")
    ELSE IF StartsWith(line, ChangeKw.C)
    THEN parse_file_rename_copy(StripPrefix(line, ChangeKw.C), "FileCopy")
    ELSE IF line = ChangeKw.DeleteAll THEN POk([kind |-> "FileDeleteAll"])
    ELSE IF StartsWith(line, ChangeKw.N) THEN parse_note_modify(StripPrefix(line, ChangeKw.N))
    ELSE IF StartsWith(line, Kw.Ls) THEN ChangeIter_parse_ls(StripPrefix(line, Kw.Ls))
    ELSE ChangeIter_parse_cat_blob(StripPrefix(line, Kw.CatBlob))

\* the line is one of the directives that ChangeIter::next takes for a change
IsChange(line) ==
    \/ \E k \in {"M", "D", "R", "C", "N"} : StartsWith(line, ChangeKw[k])
    \/ line = ChangeKw.DeleteAll
    \/ StartsWith(line, Kw.Ls) \/ StartsWith(line, Kw.CatBlob)

NoneChange(p) == [p |-> p, err |-> "", some |-> FALSE, v |-> NoChange]

\* ChangeIter::next
ChangeIter_next(p) ==
    Let(next_directive(p), LAMBDA d :
        IF d.p.panicked THEN [p |-> d.p, err |-> "panic", some |-> FALSE, v |-> NoChange]
        ELSE IF ~d.some THEN NoneChange(d.p)
        ELSE IF ~IsChange(d.line)
        THEN Let(unread_directive(d.p), LAMBDA u :
                 IF u.panicked THEN [p |-> u, err |-> "panic", some |-> FALSE, v |-> NoChange]
                 ELSE NoneChange(u))
        ELSE Let(parse_change(d.line), LAMBDA c :
                 [p |-> IF c.err = "panic" THEN Panic(d.p) ELSE d.p,
                  err |-> c.err, some |-> c.err = "", v |-> c.v]))

----------------------------------------------------------------------------
(* The emitter (dump.rs) *)

\* the decimal digits of n, as `{}` formats an integer
RECURSIVE FormatInt(_)
FormatInt(n) ==
    IF n < 10 THEN <<DIGIT0 + n>> ELSE Append(FormatInt(n \div 10), DIGIT0 + (n % 10))

\* Dump for Mark
Dump_Mark(mark) == <<109, 97, 114, 107, 32, 58>> \o FormatInt(mark) \o <<LF>>

\* Dump for OriginalOid
Dump_OriginalOid(oid) == Kw.OriginalOid \o oid \o <<LF>>

\* slice::split on LF: the pieces between the LFs, the last one included
RECURSIVE SplitLf(_)
SplitLf(data) ==
    Let(IndexOf(data, LF), LAMBDA i :
        IF i = 0 THEN <<data>>
        ELSE <<SubSeq(data, 1, i - 1)>> \o SplitLf(SubSeq(data, i + 1, Len(data))))

\* DataBuf::validate_delim, for the delimiter given
validate_delim(data, delim) ==
    IF delim = <<>> THEN "EmptyDelim"
    ELSE IF Contains(delim, NUL) THEN "DelimContainsNul"
    ELSE IF ~EndsWith(data, <<LF>>) THEN "NoFinalLf"
    ELSE IF \E k \in 1..Len(SplitLf(data)) : SplitLf(data)[k] = delim THEN "DataContainsDelim"
    ELSE ""

\* Dump for Data: d = [data, delim], delim an option
Dump_Data(d) ==
    IF d.delim.some /\ validate_delim(d.data, d.delim.v) = ""
    THEN <<100, 97, 116, 97, 32, 60, 60>> \o d.delim.v \o <<LF>> \o d.data
             \o d.delim.v \o <<LF, LF>>
    ELSE Kw.Data \o FormatInt(Len(d.data)) \o <<LF>> \o d.data \o <<LF>>

\* Dump for Option<T>
Dump_Option(o, dump(_)) == IF o.some THEN dump(o.v) ELSE <<>>

\* Dump for Blob
Dump_Blob(b) ==
    <<98, 108, 111, 98, 10>> \o Dump_Option(b.mark, Dump_Mark)
        \o Dump_Option(b.original_oid, Dump_OriginalOid) \o Dump_Data(b.data)

\* Dump for FileSize
Dump_FileSize(fs) ==
    FormatInt(fs.value) \o (IF fs.unit = "K" THEN <<107>>
                            ELSE IF fs.unit = "M" THEN <<109>>
                            ELSE IF fs.unit = "G" THEN <<103>> ELSE <<>>)

\* Dump for OptionGit: every option is written with two leading dashes
Dump_OptionGit(o) ==
    <<111, 112, 116, 105, 111, 110, 32, 103, 105, 116, 32>> \o
    (IF o.opt = "MaxPackSize" THEN <<45, 45>> \o OptKw.MaxPackSize \o Dump_FileSize(o.size)
     ELSE IF o.opt = "BigFileThreshold"
     THEN <<45, 45>> \o OptKw.BigFileThreshold \o Dump_FileSize(o.size)
     ELSE IF o.opt = "Depth" THEN <<45, 45>> \o OptKw.Depth \o FormatInt(o.n)
     ELSE IF o.opt = "ActiveBranches" THEN <<45, 45>> \o OptKw.ActiveBranches \o FormatInt(o.n)
     ELSE IF o.opt = "ExportPackEdges" THEN <<45, 45>> \o OptKw.ExportPackEdges \o o.path
     ELSE IF o.opt = "Quiet" THEN <<45, 45>> \o OptKw.Quiet
     ELSE IF o.opt = "Stats" THEN <<45, 45>> \o OptKw.Stats
     ELSE <<45, 45>> \o OptKw.AllowUnsafeFeatures) \o <<LF>>

\* Dump for OptionOther
Dump_OptionOther(option) == Kw.Option \o option \o <<LF>>

----------------------------------------------------------------------------
(* The inputs: streams written from commands.  An item is one command: c is
   the command of the data model, segs the text it is written as, payload
   the payload of a blob, lf whether the optional LF is written after it.
   A comment line may be put in front of a segment whose dir is TRUE. *)

Line(b) == b \o <<LF>>
Seg(t) == [t |-> t, dir |-> TRUE]
Raw(t) == [t |-> t, dir |-> FALSE]
OptLf(lf) == IF lf THEN <<Seg(<<LF>>)>> ELSE <<>>

RECURSIVE TextOf(_)
TextOf(segs) == IF segs = <<>> THEN <<>> ELSE Head(segs).t \o TextOf(Tail(segs))

RECURSIVE StreamText(_)
StreamText(items) ==
    IF items = <<>> THEN <<>> ELSE TextOf(Head(items).segs) \o StreamText(Tail(items))

\* the bounds of the inputs
MaxPayload == 2
MaxCmds == 2

PayloadBytes == {NUL, LF, 97}
RECURSIVE BytesUpTo(_)
BytesUpTo(n) ==
    IF n = 0 THEN {<<>>}
    ELSE BytesUpTo(n - 1) \cup
         {Append(b, x) : b \in {y \in BytesUpTo(n - 1) : Len(y) = n - 1}, x \in PayloadBytes}

DelimE == <<69>>
AB == <<97, 98, LF>>
Counted(data) == [data |-> data, delim |-> None]
Delimited(data) == [data |-> data, delim |-> Some(DelimE)]

\* the header the data d is written with (Dump for Data)
HeaderOf(d) ==
    IF d.delim.some /\ validate_delim(d.data, d.delim.v) = ""
    THEN [counted |-> FALSE, len |-> 0, delim |-> d.delim.v]
    ELSE [counted |-> TRUE, len |-> Len(d.data), delim |-> <<>>]

\* the segments of the data d as the emitter writes it, with or without the
\* LF that ends it
DataSegs(d, lf) ==
    Let(Dump_Data(d), LAMBDA out :
    Let(IndexOf(out, LF), LAMBDA i :
    Let(SubSeq(out, i + 1, Len(out)), LAMBDA rest :
        <<Seg(SubSeq(out, 1, i)), Raw(IF lf THEN rest ELSE DropLast(rest))>>)))

Marks == {NoneInt, Some(1)}
Oids == {None, Some(<<120>>)}

BlobItem(mark, oid, d, lf) ==
    [c |-> [kind |-> "Blob", mark |-> mark, original_oid |-> oid, data_header |-> HeaderOf(d)],
     segs |-> <<Seg(Line(Kw.Blob))>>
              \o (IF mark.some THEN <<Seg(Dump_Mark(mark.v))>> ELSE <<>>)
              \o (IF oid.some THEN <<Seg(Dump_OriginalOid(oid.v))>> ELSE <<>>)
              \o DataSegs(d, lf),
     payload |-> d.data, lf |-> lf,
     emitted |-> lf,
     model |-> [mark |-> mark, original_oid |-> oid, data |-> d]]

CoreDatas == {Counted(<<>>), Counted(<<97>>), Counted(AB), Delimited(AB)}

\* blobs with and without their optional parts
CoreBlobs ==
    {BlobItem(m, o, d, lf) : m \in Marks, o \in Oids, d \in CoreDatas, lf \in BOOLEAN}

\* blobs of every payload up to MaxPayload bytes, in both forms
PayloadBlobs ==
    {BlobItem(Some(1), Some(<<120>>), Counted(b), TRUE) : b \in BytesUpTo(MaxPayload)}
    \cup {BlobItem(Some(1), Some(<<120>>), Delimited(b), TRUE) : b \in BytesUpTo(MaxPayload)}

Item(c, segs, lf, emitted) ==
    [c |-> c, segs |-> segs, payload |-> <<>>, lf |-> lf, emitted |-> emitted, model |-> c]

BranchR == <<114>>   \* the branch "r"
TagT == <<116>>   \* the tag "t"
IdentText == <<110, 32, 60, 101, 62, 32, 49>>   \* b"n <e> 1"
Utf == <<117>>   \* the encoding "u"
MarkRef(m) == <<COLON>> \o FormatInt(m)
MarkObj(m) == [is_mark |-> TRUE, mark |-> m, name |-> <<>>]
OptOf(present, x, dflt) == [some |-> present, v |-> IF present THEN x ELSE dflt]
SegIf(present, t) == IF present THEN <<Seg(t)>> ELSE <<>>

\* a commit as fast-export writes it; what it has of the optional
\* sub-directives is has, a subset of the names below
CommitParts == {"mark", "original-oid", "author", "encoding", "from", "merge"}
CommitItem(has, d) ==
    Item([kind |-> "Commit", branch |-> BranchR,
          mark |-> OptOf("mark" \in has, 1, 0),
          original_oid |-> OptOf("original-oid" \in has, <<120>>, <<>>),
          author |-> OptOf("author" \in has, PersonIdent_parse(IdentText).v, NoIdent),
          committer |-> PersonIdent_parse(IdentText).v,
          encoding |-> OptOf("encoding" \in has, Utf, <<>>),
          message |-> d.data,
          from |-> OptOf("from" \in has, MarkObj(1), NoObjectish),
          merge |-> IF "merge" \in has THEN <<MarkObj(1)>> ELSE <<>>],
         <<Seg(Line(Kw.Commit \o BranchR))>>
             \o SegIf("mark" \in has, Dump_Mark(1))
             \o SegIf("original-oid" \in has, Dump_OriginalOid(<<120>>))
             \o SegIf("author" \in has, Line(Kw.Author \o IdentText))
             \o <<Seg(Line(Kw.Committer \o IdentText))>>
             \o SegIf("encoding" \in has, Line(Kw.Encoding \o Utf))
             \o DataSegs(d, TRUE)
             \o SegIf("from" \in has, Line(Kw.From \o MarkRef(1)))
             \o SegIf("merge" \in has, Line(Kw.Merge \o MarkRef(1))),
         TRUE, FALSE)

TagParts == {"mark", "original-oid", "tagger"}
TagItem(has, d) ==
    Item([kind |-> "Tag", name |-> TagT,
          mark |-> OptOf("mark" \in has, 1, 0),
          from |-> MarkObj(1),
          original_oid |-> OptOf("original-oid" \in has, <<120>>, <<>>),
          tagger |-> OptOf("tagger" \in has, PersonIdent_parse(IdentText).v, NoIdent),
          message |-> d.data],
         <<Seg(Line(Kw.Tag \o TagT))>>
             \o SegIf("mark" \in has, Dump_Mark(1))
             \o <<Seg(Line(Kw.From \o MarkRef(1)))>>
             \o SegIf("original-oid" \in has, Dump_OriginalOid(<<120>>))
             \o SegIf("tagger" \in has, Line(Kw.Tagger \o IdentText))
             \o DataSegs(d, TRUE),
         TRUE, FALSE)

ResetItem(from) ==
    Item([kind |-> "Reset", branch |-> BranchR, from |-> OptOf(from, MarkObj(1), NoObjectish)],
         <<Seg(Line(Kw.Reset \o BranchR))>> \o SegIf(from, Line(Kw.From \o MarkRef(1))),
         FALSE, FALSE)

ProgressItem(lf) ==
    Item([kind |-> "Progress", message |-> <<112>>],
         <<Seg(Line(Kw.Progress \o <<112>>))>> \o OptLf(lf), lf, FALSE)

CheckpointItem(lf) ==
    Item([kind |-> "Checkpoint"], <<Seg(Line(Kw.Checkpoint))>> \o OptLf(lf), lf, FALSE)

\* alias, with an LF after the `alias` line, where the parser takes the
\* optional LF to be, or after the `to` line
AliasItem(head_lf, tail_lf) ==
    Item([kind |-> "Alias", mark |-> 1, to |-> MarkObj(1)],
         <<Seg(Line(Kw.Alias))>> \o OptLf(head_lf)
             \o <<Seg(Dump_Mark(1)), Seg(Line(Kw.To \o MarkRef(1)))>> \o OptLf(tail_lf),
         head_lf, FALSE)

GitOptions ==
    {GitOpt("Quiet"), GitOpt("Stats"), [GitOpt("Depth") EXCEPT !.n = 1],
     [GitOpt("MaxPackSize") EXCEPT !.size = [value |-> 1, unit |-> "K"]],
     [GitOpt("ExportPackEdges") EXCEPT !.path = <<120>>]}

\* `option git` as the emitter writes it
OptionGitItem(o) ==
    Item([kind |-> "Option", git |-> TRUE, option |-> o, other |-> <<>>],
         <<Seg(Dump_OptionGit(o))>>, FALSE, TRUE)

\* `option git quiet` as fast-import reads it
OptionGitWireItem ==
    Item([kind |-> "Option", git |-> TRUE, option |-> GitOpt("Quiet"), other |-> <<>>],
         <<Seg(Line(Kw.Option \o Kw.Git \o OptKw.Quiet))>>, FALSE, FALSE)

OptionOtherItem ==
    Item([kind |-> "Option", git |-> FALSE, option |-> NoOption, other |-> <<120>>],
         <<Seg(Dump_OptionOther(<<120>>))>>, FALSE, TRUE)

DoneItem == Item([kind |-> "Done", done |-> "Explicit"], <<Seg(Line(Kw.Done))>>, FALSE, FALSE)
GetMarkItem ==
    Item([kind |-> "GetMark", mark |-> 1], <<Seg(Line(Kw.GetMark \o MarkRef(1)))>>, FALSE, FALSE)
CatBlobItem ==
    Item([kind |-> "CatBlob", blob |-> MarkObj(1)],
         <<Seg(Line(Kw.CatBlob \o MarkRef(1)))>>, FALSE, FALSE)
FeatureItem ==
    Item([kind |-> "Feature", feature |-> Feat("Done")],
         <<Seg(Line(Kw.Feature \o Ft.Done))>>, FALSE, FALSE)

CommitItems ==
    {CommitItem(CommitParts, Counted(<<97>>)), CommitItem({}, Counted(<<97>>)),
     CommitItem(CommitParts, Delimited(<<97, LF>>)), CommitItem(CommitParts, Counted(<<>>))}
    \cup {CommitItem(CommitParts \ {x}, Counted(<<97>>)) : x \in CommitParts}
TagItems ==
    {TagItem(TagParts, Counted(<<97>>)), TagItem({}, Counted(<<97>>)),
     TagItem(TagParts, Counted(<<>>))}
    \cup {TagItem(TagParts \ {x}, Counted(<<97>>)) : x \in TagParts}

\* commits with every message up to MaxPayload bytes, counted
PayloadCommits == {CommitItem(CommitParts, Counted(b)) : b \in BytesUpTo(MaxPayload)}

PlainItems ==
    CommitItems \cup TagItems \cup {ResetItem(f) : f \in BOOLEAN}
    \cup {ProgressItem(lf) : lf \in BOOLEAN} \cup {CheckpointItem(lf) : lf \in BOOLEAN}
    \cup {AliasItem(FALSE, FALSE), AliasItem(TRUE, FALSE), AliasItem(FALSE, TRUE)}
    \cup {OptionGitItem(o) : o \in GitOptions}
    \cup {OptionGitWireItem, OptionOtherItem, DoneItem, GetMarkItem, CatBlobItem, FeatureItem}

\* the commands that may follow the first command of a stream, and those
\* that may follow the second
Followers ==
    {BlobItem(Some(1), Some(<<120>>), Delimited(AB), TRUE),
     BlobItem(Some(1), Some(<<120>>), Counted(<<97>>), FALSE),
     ProgressItem(FALSE), ResetItem(FALSE)}
Tails == {ProgressItem(FALSE)}

RECURSIVE StreamsOf(_)
StreamsOf(n) ==
    IF n = 1 THEN {<<a>> : a \in CoreBlobs \cup PlainItems}
    ELSE StreamsOf(n - 1) \cup
         {Append(st, b) : st \in {x \in StreamsOf(n - 1) : Len(x) = n - 1},
                          b \in IF n = 2 THEN Followers ELSE Tails}
Streams == StreamsOf(MaxCmds) \cup {<<a>> : a \in PayloadBlobs \cup PayloadCommits}

----------------------------------------------------------------------------
(* The caller: one thread that calls Parser::next and, on a blob, Blob::open
   and the methods of the DataReader it got *)

MaxCalls == 4
MaxOpens == 2
MaxBuf == 2

\* Parser::new over the bytes of the input
Parser_new(bytes) ==
    DataState_new([r |-> bytes, eof |-> FALSE, lines |-> <<>>, unread |-> FALSE,
                   data_opened |-> FALSE, is_counted |-> TRUE, len |-> 0, delim |-> <<>>,
                   finished |-> FALSE, closed |-> FALSE, len_read |-> 0,
                   line_buf |-> <<>>, line_offset |-> 0, panicked |-> FALSE, broke |-> ""])

NoTwin == [on |-> FALSE]
NoCall == [f |-> "none"]

\* cmd: the result of the last Parser::next (err, c), the parser as that call
\* left it (at) and, in before, how the caller had left the command returned
\* before it: whether it was a blob, the one the input was written from (ok),
\* whether its reader was opened, its payload finished or skipped, the bytes
\* read from it, and the parser as the call that returned it left it
NoBefore == [blob |-> FALSE, ok |-> FALSE, opened |-> FALSE, finished |-> FALSE,
             skipped |-> FALSE, got |-> <<>>, at |-> NoTwin]
NoCmd == [err |-> "", c |-> NoCommand, at |-> NoTwin, before |-> NoBefore]
\* result: the last call on the blob or its reader (op, err, n, and for a read
\* the length buf of the buffer it was given) and whether a
\* skip_rest or a close of this reader has returned Ok
NoResult ==
    [op |-> "none", err |-> "", n |-> 0, buf |-> 0, skipped |-> FALSE, closed |-> FALSE]

\* the errors of the reader's protocol; any other error is an error of the
\* input, after which the caller leaves the reader alone
UsageErrors == {"", "AlreadyOpened", "Closed", "Unfinished"}

\* a call on the reader that panics unwinds with the parser as it is
Unwound(o) == IF o.err = "panic" \/ o.p.panicked THEN Panic(o.p) ELSE o.p

\* the second parser makes the same call, when there is one
TwinStep(step(_)) ==
    IF twin.on /\ ~twin.p.panicked THEN [twin EXCEPT !.p = step(twin.p)] ELSE twin

Init ==
    /\ stream \in Streams
    /\ debug \in BOOLEAN
    /\ parser = Parser_new(StreamText(stream))
    /\ ncalls = 0
    /\ cmd = NoCmd
    /\ has_reader = FALSE
    /\ nopen = 0
    /\ result = NoResult
    /\ got = <<>>
    /\ twin = NoTwin
    /\ call = NoCall

\* parser.next(): whatever handle the caller still had is gone
CallNext ==
    /\ ~parser.panicked
    /\ ncalls < MaxCalls
    /\ \E o \in {Parser_next(parser)} :
           /\ parser' = o.p
           /\ cmd' = [err |-> o.err, c |-> o.c, at |-> o.p,
                      before |-> [blob |-> cmd.c.kind = "Blob",
                                  ok |-> /\ ncalls \in 1..Len(stream)
                                         /\ cmd.err = ""
                                         /\ cmd.c = stream[ncalls].c,
                                  opened |-> parser.data_opened,
                                  finished |-> parser.finished, skipped |-> result.skipped,
                                  got |-> got, at |-> cmd.at]]
    /\ twin' = IF twin.on /\ ~twin.p.panicked
               THEN Let(Parser_next(twin.p), LAMBDA t :
                        [twin EXCEPT !.p = t.p, !.err = t.err, !.c = t.c])
               ELSE twin
    /\ ncalls' = ncalls + 1
    /\ has_reader' = FALSE
    /\ nopen' = 0
    /\ result' = NoResult
    /\ got' = <<>>
    /\ UNCHANGED <<debug, stream, call>>

\* blob.open()
Open ==
    /\ ~parser.panicked
    /\ cmd.c.kind = "Blob"
    /\ nopen < MaxOpens
    /\ \E o \in {DataStream_open(parser)} :
           /\ parser' = o.p
           /\ has_reader' = (has_reader \/ o.err = "")
           /\ result' = [result EXCEPT !.op = "open", !.err = o.err, !.n = 0, !.buf = 0]
    /\ twin' = TwinStep(LAMBDA q : DataStream_open(q).p)
    /\ nopen' = nopen + 1
    /\ UNCHANGED <<debug, stream, ncalls, cmd, got, call>>

\* reader.read_next(buf), for a buffer of n bytes
Read(n) ==
    /\ ~parser.panicked
    /\ has_reader
    /\ result.err \in UsageErrors
    /\ \E o \in {DataReader_read_next(parser, n)} :
           /\ parser' = Unwound(o)
           /\ result' = [result EXCEPT !.op = "read", !.err = o.err, !.n = o.n, !.buf = n]
           /\ got' = got \o o.bytes
    /\ twin' = TwinStep(LAMBDA q : Unwound(DataReader_read_next(q, n)))
    /\ UNCHANGED <<debug, stream, ncalls, cmd, has_reader, nopen, call>>

\* reader.skip_rest()
SkipRest ==
    /\ ~parser.panicked
    /\ has_reader
    /\ result.err \in UsageErrors
    /\ \E o \in {DataReader_skip_rest(parser)} :
           /\ parser' = Unwound(o)
           /\ result' = [result EXCEPT !.op = "skip", !.err = o.err, !.n = o.n, !.buf = 0,
                                        !.skipped = @ \/ o.err = ""]
    /\ twin' = TwinStep(LAMBDA q : Unwound(DataReader_skip_rest(q)))
    /\ UNCHANGED <<debug, stream, ncalls, cmd, has_reader, nopen, got, call>>

\* reader.close()
Close ==
    /\ ~parser.panicked
    /\ has_reader
    /\ result.err \in UsageErrors
    /\ \E o \in {DataReader_close(parser)} :
           /\ parser' = o.p
           /\ result' = [result EXCEPT !.op = "close", !.err = o.err, !.n = 0, !.buf = 0,
                                        !.closed = @ \/ o.err = ""]
    /\ twin' = TwinStep(LAMBDA q : DataReader_close(q).p)
    /\ UNCHANGED <<debug, stream, ncalls, cmd, has_reader, nopen, got, call>>

\* the reader goes out of scope
Drop ==
    /\ ~parser.panicked
    /\ has_reader
    /\ has_reader' = FALSE
    /\ result' = [result EXCEPT !.op = "drop", !.err = "", !.n = 0, !.buf = 0]
    /\ UNCHANGED <<parser, debug, stream, ncalls, cmd, nopen, got, twin, call>>

Next ==
    \/ CallNext
    \/ Open
    \/ \E n \in 0..MaxBuf : Read(n)
    \/ SkipRest
    \/ Close
    \/ Drop

Spec == Init /\ [][Next]_vars

----------------------------------------------------------------------------
(* Two parsers side by side: `parser` reads a stream with comment lines put
   in front of one of its directives, `twin` reads the stream without them,
   and the caller makes every call on both *)

MaxComments == 2

CommentLine == <<HASH, 99, LF>>   \* b"#c\n"
RECURSIVE Comments(_)
Comments(n) == IF n = 0 THEN <<>> ELSE CommentLine \o Comments(n - 1)

RECURSIVE AllSegs(_)
AllSegs(items) == IF items = <<>> THEN <<>> ELSE Head(items).segs \o AllSegs(Tail(items))

\* the places of the segments segs where comment lines may stand: in front
\* of a directive, or after the last line
CommentPlaces(segs) == {k \in 1..(Len(segs) + 1) : k = Len(segs) + 1 \/ segs[k].dir}

\* the text of segs with n comment lines in front of segment k
Commented(segs, k, n) ==
    TextOf(SubSeq(segs, 1, k - 1)) \o Comments(n) \o TextOf(SubSeq(segs, k, Len(segs)))

TwinFirst ==
    {ProgressItem(TRUE), ProgressItem(FALSE), CheckpointItem(TRUE), AliasItem(TRUE, FALSE),
     ResetItem(TRUE), CommitItem(CommitParts, Counted(<<97>>)),
     BlobItem(Some(1), Some(<<120>>), Counted(<<97>>), TRUE),
     BlobItem(Some(1), Some(<<120>>), Delimited(AB), TRUE)}
TwinStreams == {<<a>> : a \in TwinFirst} \cup {<<a, ProgressItem(FALSE)>> : a \in TwinFirst}

InitC8 ==
    /\ stream \in TwinStreams
    /\ debug \in BOOLEAN
    /\ \E k \in CommentPlaces(AllSegs(stream)), n \in 1..MaxComments :
           parser = Parser_new(Commented(AllSegs(stream), k, n))
    /\ twin = [on |-> TRUE, p |-> Parser_new(StreamText(stream)), err |-> "", c |-> NoCommand]
    /\ ncalls = 0
    /\ cmd = NoCmd
    /\ has_reader = FALSE
    /\ nopen = 0
    /\ result = NoResult
    /\ got = <<>>
    /\ call = NoCall

SpecC8 == InitC8 /\ [][Next]_vars

----------------------------------------------------------------------------
(* Data values of every framing: payloads of up to MaxData bytes out of NUL,
   LF and two letters, with no delimiter or one of Delims, written by the
   emitter as the message of a commit or of a tag, or as the payload of a
   blob that a progress command follows *)

MaxData == 3

DataBytes == {NUL, LF, 69, 97}
BytesOver(S, n) == UNION {[1..k -> S] : k \in 0..n}

\* delimiters: none, "E", "EE", and the ones a header cannot carry
Delims == {<<>>, <<69>>, <<69, 69>>, <<NUL>>, <<LF>>}
DataValues ==
    {[data |-> b, delim |-> dl] :
        b \in BytesOver(DataBytes, MaxData), dl \in {None} \cup {Some(x) : x \in Delims}}

\* the command item, with the data value it carries and the bytes the
\* emitter wrote for it
DataItem(item, d) == [data |-> d, dumped |-> TextOf(DataSegs(d, TRUE))] @@ item

DataStreams ==
    {<<DataItem(CommitItem(CommitParts, d), d)>> : d \in DataValues}
    \cup {<<DataItem(TagItem(TagParts, d), d)>> : d \in DataValues}
    \cup {<<DataItem(BlobItem(Some(1), Some(<<120>>), d, TRUE), d), ProgressItem(FALSE)>> :
             d \in DataValues}

InitData ==
    /\ stream \in DataStreams
    /\ debug \in BOOLEAN
    /\ parser = Parser_new(StreamText(stream))
    /\ ncalls = 0
    /\ cmd = NoCmd
    /\ has_reader = FALSE
    /\ nopen = 0
    /\ result = NoResult
    /\ got = <<>>
    /\ twin = NoTwin
    /\ call = NoCall

SpecData == InitData /\ [][Next]_vars

----------------------------------------------------------------------------
(* Reference names (refs.rs) *)

SLASH == 47
DOT == 46
STAR == 42
AT == 64
LBRACE == 123
QUESTION == 63
LBRACKET == 91
CARET == 94
TILDE == 126
DEL == 127
UNIT_SEP == 31   \* b'\x1f', the last control character below the space
DotLock == <<DOT, 108, 111, 99, 107>>   \* b".lock"

\* what check_refname_component returns, and the allow_asterisk it leaves
ComponentErr(e) == [err |-> e, len |-> 0, allow |-> FALSE]
ComponentOk(len, allow) == [err |-> "", len |-> len, allow |-> allow]

\* the loop of check_refname_component, from the byte at i on: the error of
\* the first byte or sequence that is forbidden, or else the length of the
\* component, which ends before the first '/'
RECURSIVE ComponentLoop(_, _, _, _, _)
ComponentLoop(refname, i, last, refspec, allow) ==
    IF i > Len(refname) THEN ComponentOk(Len(refname), allow)
    ELSE Let(refname[i], LAMBDA ch :
        IF ch <= UNIT_SEP \/ ch = DEL THEN ComponentErr("ControlChar")
        ELSE IF ch = SP THEN ComponentErr("Space")
        ELSE IF ch = COLON THEN ComponentErr("Colon")
        ELSE IF ch = QUESTION THEN ComponentErr("Question")
        ELSE IF ch = LBRACKET THEN ComponentErr("OpenBracket")
        ELSE IF ch = BACKSLASH THEN ComponentErr("Backslash")
        ELSE IF ch = CARET THEN ComponentErr("Caret")
        ELSE IF ch = TILDE THEN ComponentErr("Tilde")
        ELSE IF ch = STAR
        THEN IF allow THEN ComponentLoop(refname, i + 1, ch, refspec, FALSE)
             ELSE IF refspec THEN ComponentErr("MultipleAsterisks")
             ELSE ComponentErr("Asterisk")
        ELSE IF ch = DOT /\ last = DOT THEN ComponentErr("DotDot")
        ELSE IF ch = LBRACE /\ last = AT THEN ComponentErr("AtBrace")
        ELSE IF ch = SLASH THEN ComponentOk(i - 1, allow)
        ELSE ComponentLoop(refname, i + 1, ch, refspec, allow))

\* check_refname_component without the test of a final ".lock"
check_refname_component_no_lock(refname, flags, allow_asterisk) ==
    Let(ComponentLoop(refname, 1, 0, "RefspecPattern" \in flags, allow_asterisk), LAMBDA l :
    IF l.err # "" \/ l.len = 0 THEN l
    ELSE IF refname[1] = DOT
    THEN ComponentErr(IF l.len = 1 THEN "ComponentIsDot" ELSE "ComponentStartsWithDot")
    ELSE l)

\* check_refname_component
check_refname_component(refname, flags, allow_asterisk) ==
    Let(ComponentLoop(refname, 1, 0, "RefspecPattern" \in flags, allow_asterisk), LAMBDA l :
    IF l.err # "" \/ l.len = 0 THEN l
    ELSE IF refname[1] = DOT
    THEN ComponentErr(IF l.len = 1 THEN "ComponentIsDot" ELSE "ComponentStartsWithDot")
    ELSE IF EndsWith(SubSeq(refname, 1, l.len), DotLock)
    THEN ComponentErr("ComponentEndsWithDotLock")
    ELSE l)

\* the loop of Refname::check_format over the components of refname, rest
\* being what is left of it: the error, or else the number of components
RECURSIVE FormatLoop(_, _, _, _, _)
FormatLoop(refname, rest, flags, component_count, allow_asterisk) ==
    Let(check_refname_component(rest, flags, allow_asterisk), LAMBDA c :
    IF c.err # "" THEN [err |-> c.err, n |-> component_count]
    ELSE IF c.len = 0
    THEN [err |-> IF refname = <<>> THEN "Empty"
                  ELSE IF component_count = 0 THEN "StartsWithSlash"
                  ELSE IF rest = <<>> THEN "EndsWithSlash"
                  ELSE "SlashSlash",
          n |-> component_count]
    ELSE IF c.len = Len(rest) THEN [err |-> "", n |-> component_count + 1]
    ELSE FormatLoop(refname, SubSeq(rest, c.len + 2, Len(rest)), flags, component_count + 1,
                    c.allow))

\* check_format with the test of the number of components before the
\* components are looked at
check_format_levels_first(refname, flags) ==
    IF refname = <<AT>> THEN "IsAt"
    ELSE IF "AllowOneLevel" \notin flags /\ \A i \in 1..Len(refname) : refname[i] # SLASH
    THEN "OnlyOneLevel"
    ELSE Let(FormatLoop(refname, refname, flags, 0, "RefspecPattern" \in flags), LAMBDA l :
         IF l.err # "" THEN l.err
         ELSE IF EndsWith(refname, <<DOT>>) THEN "EndsWithDot"
         ELSE "")

\* Refname::check_format: "" for Ok(()), or the RefnameError
check_format(refname, flags) ==
    IF refname = <<AT>> THEN "IsAt"
    ELSE Let(FormatLoop(refname, refname, flags, 0, "RefspecPattern" \in flags), LAMBDA l :
         IF l.err # "" THEN l.err
         ELSE IF EndsWith(refname, <<DOT>>) THEN "EndsWithDot"
         ELSE IF "AllowOneLevel" \notin flags /\ l.n < 2 THEN "OnlyOneLevel"
         ELSE "")

----------------------------------------------------------------------------
(* Streams with a line that is no command, or with a command that lacks a
   sub-directive: in front, nothing or a command as the emitter writes it;
   then the lines in question, with the error they are to give (expect);
   then nothing or a progress command *)

\* lines as a command item that is to fail with the error expect
WireItem(lines, expect) ==
    [expect |-> expect]
        @@ Item(NoCommand, [k \in 1..Len(lines) |-> Seg(Line(lines[k]))], FALSE, FALSE)

CommitterLine == Kw.Committer \o IdentText
DataLine == Kw.Data \o <<49>>   \* b"data 1", of a payload that is not there

\* a blank line
BlankLine == WireItem(<<<<>>>>, "UnexpectedBlank")

\* lines that begin no command
BadLines ==
    {WireItem(<<l>>, "UnrecognizedCommand") :
        l \in {<<120>>, Kw.Blob \o <<120>>, DropLast(Kw.Commit), <<SP>>}}

\* commands without one of their mandatory sub-directives, and commands whose
\* sub-directives are not in the order of the grammar
Lacking ==
    {WireItem(<<Kw.Blob>>, "ExpectedBlobData"),
     WireItem(<<Kw.Blob, DropLast(Dump_Mark(1))>>, "ExpectedBlobData"),
     WireItem(<<Kw.Blob, DropLast(Dump_OriginalOid(<<120>>)), DropLast(Dump_Mark(1)), DataLine>>,
              "ExpectedBlobData"),
     WireItem(<<Kw.Commit \o BranchR>>, "ExpectedCommitCommitter"),
     WireItem(<<Kw.Commit \o BranchR, DataLine>>, "ExpectedCommitCommitter"),
     WireItem(<<Kw.Commit \o BranchR, Kw.Author \o IdentText, DataLine>>,
              "ExpectedCommitCommitter"),
     WireItem(<<Kw.Commit \o BranchR, CommitterLine, Kw.Author \o IdentText, DataLine>>,
              "ExpectedCommitMessage"),
     WireItem(<<Kw.Commit \o BranchR, CommitterLine>>, "ExpectedCommitMessage"),
     WireItem(<<Kw.Commit \o BranchR, CommitterLine, Kw.From \o MarkRef(1), DataLine>>,
              "ExpectedCommitMessage"),
     WireItem(<<Kw.Tag \o TagT>>, "ExpectedTagFrom"),
     WireItem(<<Kw.Tag \o TagT, DataLine>>, "ExpectedTagFrom"),
     WireItem(<<Kw.Tag \o TagT, DropLast(Dump_OriginalOid(<<120>>)), Kw.From \o MarkRef(1)>>,
              "ExpectedTagFrom"),
     WireItem(<<Kw.Tag \o TagT, Kw.From \o MarkRef(1)>>, "ExpectedTagMessage"),
     WireItem(<<Kw.Tag \o TagT, DropLast(Dump_Mark(1)), Kw.From \o MarkRef(1)>>,
              "ExpectedTagMessage"),
     WireItem(<<Kw.Alias>>, "ExpectedAliasMark"),
     WireItem(<<Kw.Alias, Kw.To \o MarkRef(1), DropLast(Dump_Mark(1))>>, "ExpectedAliasMark"),
     WireItem(<<Kw.Alias, DropLast(Dump_Mark(1))>>, "ExpectedAliasTo")}

\* what stands in front of the lines in question
WireFirst ==
    {ProgressItem(TRUE), ProgressItem(FALSE), CheckpointItem(FALSE), ResetItem(TRUE),
     ResetItem(FALSE), GetMarkItem, DoneItem, AliasItem(FALSE, FALSE),
     CommitItem(CommitParts, Counted(<<97>>)), TagItem(TagParts, Counted(<<97>>)),
     BlobItem(Some(1), Some(<<120>>), Counted(<<97>>), TRUE),
     BlobItem(Some(1), Some(<<120>>), Delimited(AB), TRUE)}

\* the commands of WireFirst after which a blank line is not their optional LF
WireFirstLf ==
    {ProgressItem(TRUE), ResetItem(TRUE), ResetItem(FALSE), GetMarkItem, AliasItem(FALSE, FALSE),
     BlobItem(Some(1), Some(<<120>>), Counted(<<97>>), TRUE),
     BlobItem(Some(1), Some(<<120>>), Delimited(AB), TRUE)}

WireTails == {<<>>, <<ProgressItem(FALSE)>>}

WireStreams ==
    {front \o <<bad>> \o tail :
        front \in {<<>>} \cup {<<a>> : a \in WireFirst},
        bad \in BadLines \cup Lacking,
        tail \in WireTails}
    \cup {front \o <<BlankLine>> \o tail :
              front \in {<<>>} \cup {<<a>> : a \in WireFirstLf},
              tail \in WireTails}

InitWire ==
    /\ stream \in WireStreams
    /\ debug \in BOOLEAN
    /\ parser = Parser_new(StreamText(stream))
    /\ ncalls = 0
    /\ cmd = NoCmd
    /\ has_reader = FALSE
    /\ nopen = 0
    /\ result = NoResult
    /\ got = <<>>
    /\ twin = NoTwin
    /\ call = NoCall

SpecWire == InitWire /\ [][Next]_vars

----------------------------------------------------------------------------
(* A caller that reads the payload one byte at a time *)

NextByte ==
    \/ CallNext
    \/ Open
    \/ \E n \in {1} : Read(n)

SpecByte == Init /\ [][NextByte]_vars

----------------------------------------------------------------------------
(* A caller that, on a commit, takes its changes with ChangeIter::next *)

MaxChanges == 2

\* the item followed by the lines of its changes
ChangedItem(item, lines) ==
    [changes |-> lines]
    @@ [item EXCEPT !.segs = @ \o [k \in 1..Len(lines) |-> Seg(Line(lines[k]))]]

\* the item without the LF of its last line
Unended(item) ==
    [item EXCEPT !.segs = [k \in 1..Len(item.segs) |->
                              IF k = Len(item.segs) THEN Seg(DropLast(item.segs[k].t))
                              ELSE item.segs[k]]]

PathA == <<97>>
QuotedA == <<DQUOTE, 97, DQUOTE>>
ChangeLines ==
    {ChangeKw.DeleteAll,
     ChangeKw.D \o PathA, ChangeKw.D \o QuotedA,
     ChangeKw.M \o Mode644 \o <<SP>> \o Inline \o <<SP>> \o PathA,
     ChangeKw.M \o Mode644 \o <<SP>> \o MarkRef(1) \o <<SP>> \o QuotedA,
     ChangeKw.M \o <<57, SP>> \o Inline \o <<SP>> \o PathA,
     ChangeKw.R \o PathA \o <<SP>> \o PathA, ChangeKw.C \o QuotedA \o <<SP>> \o QuotedA,
     ChangeKw.N \o Inline \o <<SP>> \o MarkRef(1),
     Kw.Ls \o QuotedA, Kw.Ls \o MarkRef(1) \o <<SP>> \o PathA,
     Kw.CatBlob \o MarkRef(1)}
ChangeLists == {<<>>} \cup {<<l>> : l \in ChangeLines}
ChangeCommits ==
    {CommitItem(has, Counted(AB)) : has \in {CommitParts, CommitParts \ {"from", "merge"}}}
ChangeFollowers ==
    {ResetItem(FALSE), ProgressItem(FALSE), DoneItem, GetMarkItem,
     BlobItem(Some(1), Some(<<120>>), Counted(<<97>>), FALSE)}
ChangeTails ==
    {<<>>} \cup {<<f>> : f \in ChangeFollowers}
    \cup {<<Unended(f)>> : f \in {ResetItem(FALSE), DoneItem}}
ChangeStreams ==
    {<<ChangedItem(c, ls)>> \o tail : c \in ChangeCommits, ls \in ChangeLists, tail \in ChangeTails}
    \cup {<<ChangedItem(Unended(ChangedItem(c, <<l>>)), <<l>>)>> :
              c \in ChangeCommits, l \in {ChangeKw.DeleteAll}}

InitChange ==
    /\ stream \in ChangeStreams
    /\ debug \in BOOLEAN
    /\ parser = Parser_new(StreamText(stream))
    /\ ncalls = 0
    /\ cmd = NoCmd
    /\ has_reader = FALSE
    /\ nopen = 0
    /\ result = NoResult
    /\ got = <<>>
    /\ twin = NoTwin
    /\ call = NoCall

\* the number of ChangeIter::next calls made since the last Parser::next
Turn == IF call.f = "ChangeIter::next" /\ call.at = ncalls THEN call.n ELSE 0

\* changes.next(), on the input of the parser that returned a commit.  call
\* keeps what it returned (ret), the command it was called after (at), how
\* many calls that makes since (n) and whether every call before it
\* returned a change (good)
ChangeNext ==
    /\ ~parser.panicked
    /\ cmd.err = "" /\ cmd.c.kind = "Commit"
    /\ Turn < MaxChanges
    /\ \E o \in {ChangeIter_next(parser)} :
           /\ parser' = o.p
           /\ call' = [f |-> "ChangeIter::next", at |-> ncalls, n |-> Turn + 1,
                       good |-> Turn = 0 \/ (call.good /\ call.ret.some),
                       ret |-> [err |-> o.err, some |-> o.some, v |-> o.v]]
    /\ UNCHANGED <<debug, stream, ncalls, cmd, has_reader, nopen, result, got, twin>>

NextChange ==
    \/ CallNext
    \/ ChangeNext

SpecChange == InitChange /\ [][NextChange]_vars

----------------------------------------------------------------------------
(* Streams that end inside the payload of a blob, or at its end *)

\* the blob item with its payload, and what ends it, cut after k bytes
CutItem(item, k) ==
    [item EXCEPT !.segs = [i \in 1..Len(item.segs) |->
                              IF i = Len(item.segs) THEN Raw(SubSeq(item.segs[i].t, 1, k))
                              ELSE item.segs[i]]]

\* payloads of a line, of a line that is not ended, and with an empty line
CutDatas ==
    {Counted(AB), Counted(<<97>>), Delimited(AB), Delimited(<<LF, 97, LF>>),
     Delimited(<<97, LF, LF>>)}
CutBlobs == {BlobItem(Some(1), Some(<<120>>), d, TRUE) : d \in CutDatas}
CutFronts == {<<>>, <<BlobItem(Some(1), Some(<<120>>), Delimited(AB), TRUE)>>}
\* commits whose message is the last of their lines
CutCommits ==
    {CommitItem(CommitParts \ {"from", "merge"}, d) : d \in {Counted(AB), Delimited(AB)}}
CutStreams ==
    UNION {{front \o <<CutItem(b, k)>> : k \in 0..Len(b.segs[Len(b.segs)].t)} :
              front \in CutFronts, b \in CutBlobs \cup CutCommits}

InitCut ==
    /\ stream \in CutStreams
    /\ debug \in BOOLEAN
    /\ parser = Parser_new(StreamText(stream))
    /\ ncalls = 0
    /\ cmd = NoCmd
    /\ has_reader = FALSE
    /\ nopen = 0
    /\ result = NoResult
    /\ got = <<>>
    /\ twin = NoTwin
    /\ call = NoCall

SpecCut == InitCut /\ [][Next]_vars

----------------------------------------------------------------------------
(* Threads that share the blob Parser::next returned (Parser is Sync): each
   calls open() on it once, and one that got a reader reads from it.  The
   main thread calls Parser::next again when no thread is inside a call, and
   the threads then start afresh on what it returned *)

MaxThreads == 3
Threads == 1..MaxThreads

\* the calls of the threads: where each thread is (start; swapped, between
\* the swap and the return of open; reader, open returned Ok; failed, open
\* returned an error) and the error its open is to return
ThreadsAt(pc) == [f |-> "DataStream::open", pc |-> pc, err |-> [t \in Threads |-> ""]]
ThreadsStart == ThreadsAt([t \in Threads |-> "start"])

ThreadBlobs ==
    {BlobItem(Some(1), Some(<<120>>), d, TRUE) : d \in {Counted(<<97>>), Counted(AB), Delimited(AB)}}
ThreadStreams == {<<a, b>> : a \in ThreadBlobs, b \in Followers}

InitThreads ==
    /\ stream \in ThreadStreams
    /\ debug \in BOOLEAN
    /\ parser = Parser_new(StreamText(stream))
    /\ ncalls = 0
    /\ cmd = NoCmd
    /\ has_reader = FALSE
    /\ nopen = 0
    /\ result = NoResult
    /\ got = <<>>
    /\ twin = NoTwin
    /\ call = ThreadsStart

\* parser.next() on the main thread, which no thread's borrow of the blob
\* outlives
MainNext ==
    /\ ~parser.panicked
    /\ ncalls < Len(stream)
    /\ \A t \in Threads : call.pc[t] # "swapped"
    /\ \E o \in {Parser_next(parser)} :
           /\ parser' = o.p
           /\ cmd' = [cmd EXCEPT !.err = o.err, !.c = o.c]
    /\ ncalls' = ncalls + 1
    /\ call' = ThreadsStart
    /\ got' = <<>>
    /\ UNCHANGED <<debug, stream, has_reader, nopen, result, twin>>

\* thread t enters blob.open(): the swap of data_opened, one atomic step
ThreadSwap(t) ==
    /\ ~parser.panicked
    /\ cmd.err = "" /\ cmd.c.kind = "Blob"
    /\ call.pc[t] = "start"
    /\ \E o \in {DataStream_open(parser)} :
           /\ parser' = o.p
           /\ call' = [call EXCEPT !.pc[t] = "swapped", !.err[t] = o.err]
    /\ UNCHANGED <<debug, stream, ncalls, cmd, has_reader, nopen, result, got, twin>>

\* the open() of thread t returns, the reader or the error
ThreadReturn(t) ==
    /\ call.pc[t] = "swapped"
    /\ call' = [call EXCEPT !.pc[t] = IF call.err[t] = "" THEN "reader" ELSE "failed"]
    /\ UNCHANGED <<parser, debug, stream, ncalls, cmd, has_reader, nopen, result, got, twin>>

\* thread t reads from the reader it got, into a buffer of n bytes
ThreadRead(t, n) ==
    /\ ~parser.panicked
    /\ call.pc[t] = "reader"
    /\ result.err \in UsageErrors
    /\ \E o \in {DataReader_read_next(parser, n)} :
           /\ parser' = Unwound(o)
           /\ result' = [result EXCEPT !.op = "read", !.err = o.err, !.n = o.n, !.buf = n]
           /\ got' = got \o o.bytes
    /\ UNCHANGED <<debug, stream, ncalls, cmd, has_reader, nopen, twin, call>>

NextThreads ==
    \/ MainNext
    \/ \E t \in Threads : ThreadSwap(t)
    \/ \E t \in Threads : ThreadReturn(t)
    \/ \E t \in Threads, n \in 1..MaxBuf : ThreadRead(t, n)

SpecThreads == InitThreads /\ [][NextThreads]_vars

----------------------------------------------------------------------------
(* The parse functions of the fields (parser.rs), each called on its own on
   an argument: call.f is the function, call.arg its argument, and call.ret
   what it returned once it has been called (call.done) *)

MaxArg == 3

\* ':', '0', '1', '9', '+', '-', 'a' and the space
MarkBytes == {COLON, DIGIT0, 49, 57, PLUS, 45, 97, SP}
\* 2^64 = 18446744073709551616, and numbers of twenty and more digits
TwoTo64 == <<49, 56, 52, 52, 54, 55, 52, 52, 48, 55, 51, 55, 48, 57, 53, 53, 49, 54, 49, 54>>
Nines20 == <<57, 57, 57, 57, 57, 57, 57, 57, 57, 57, 57, 57, 57, 57, 57, 57, 57, 57, 57, 57>>
TenTo19 == <<49, 48, 48, 48, 48, 48, 48, 48, 48, 48, 48, 48, 48, 48, 48, 48, 48, 48, 48, 48>>
MarkArgs ==
    BytesOver(MarkBytes, MaxArg)
    \cup {<<COLON>> \o n : n \in {U64_MAX, TwoTo64, Nines20, TenTo19, Append(TenTo19, DIGIT0),
                                  <<DIGIT0>> \o U64_MAX, <<DIGIT0, DIGIT0>> \o TwoTo64,
                                  U32_MAX, <<PLUS>> \o U64_MAX, SubSeq(U64_MAX, 1, 19),
                                  SubSeq(Nines20, 1, 9), SubSeq(TenTo19, 1, 10)}}
    \cup {U64_MAX}

\* '<', 'E', NUL, '1' and the space
HeaderBytes == {LT, 69, NUL, 49, SP}
HeaderArgs == BytesOver(HeaderBytes, MaxArg + 2)

\* names, identities (with '<' and '>'), submodule specs (with ':') and the
\* arguments of ls (with a mark and a quote)
NameArgs == BytesOver({NUL, 97, SP}, MaxArg)
\* identities with a name, and with a date that has a '<' and a '>'
IdentExamples ==
    {IdentText, <<97, SP, LT, GT, SP, 49>>, <<97, 98, SP, LT, 99, 100, GT, SP, 49, 50>>,
     <<SP, LT, 101, GT, SP, 49>>, <<110, SP, LT, 101, GT, SP, LT, 49, GT>>,
     <<110, LT, 101, GT, SP, 49>>, <<110, SP, LT, 101, GT, 49>>, <<110, SP, LT, 101, GT>>}
IdentArgs == BytesOver({NUL, 97, SP, LT, GT}, MaxArg + 1) \cup IdentExamples
SubmoduleArgs == BytesOver({NUL, 97, COLON}, MaxArg)
LsArgs == BytesOver({NUL, 97, SP, COLON, 49, DQUOTE}, MaxArg + 1)

\* reference names: every name of up to MaxRef of the bytes the rules are
\* about and a letter; every byte, alone, behind, before and between
\* components; and ".lock" with up to two bytes on either side
MaxRef == 4
RefBytes == {SLASH, DOT, STAR, AT, LBRACE, 97}
RefSides == BytesOver({SLASH, DOT, 97}, 2)
Foo == <<102, 111, 111>>   \* b"foo"
Bar == <<98, 97, 114>>   \* b"bar"
Heads == <<104, 101, 97, 100, 115>>   \* b"heads"
Slashes == <<SLASH, SLASH, SLASH>>
\* names of tests::t1402_check_ref_format
RefExamples ==
    {Foo \o DotLock \o Slashes \o Bar, Heads \o Slashes \o Foo \o DotLock,
     Foo \o <<SLASH, STAR>>, Foo \o <<SLASH, STAR, SLASH, STAR>>,
     Heads \o <<SLASH>> \o Foo \o <<STAR, SLASH>> \o Bar \o <<STAR>>}
RefArgs ==
    UNION {BytesOver(RefBytes, MaxRef), RefExamples,
           {x \o <<b>> \o y : b \in 0..255, x \in {<<>>, <<97, SLASH>>}, y \in {<<>>, <<SLASH, 97>>}},
           {x \o DotLock \o y : x \in RefSides, y \in RefSides}}
RefnameFlags == {"AllowOneLevel", "RefspecPattern"}

\* quoted strings: the ways to write one byte between double quotes, as
\* itself, as a letter escape or as an octal escape, with the byte meant
QuoteUnits ==
    {[text |-> <<b>>, byte |-> b] : b \in {97, SP, 49, 255}}
    \cup {[text |-> <<BACKSLASH, e[1]>>, byte |-> e[2]] :
              e \in {<<97, 7>>, <<98, 8>>, <<102, 12>>, <<110, LF>>, <<114, 13>>, <<116, 9>>,
                     <<118, 11>>, <<BACKSLASH, BACKSLASH>>, <<DQUOTE, DQUOTE>>}}
    \cup {[text |-> <<BACKSLASH, 48 + o[1], 48 + o[2], 48 + o[3]>>,
           byte |-> o[1] * 64 + o[2] * 8 + o[3]] :
              o \in {<<0, 0, 0>>, <<1, 0, 1>>, <<3, 7, 7>>, <<0, 4, 2>>}}
\* octal escapes that begin with 4..7
OverflowUnits == {<<BACKSLASH, 48 + o, 48, 48>> : o \in 4..7}
QuoteTails == {<<>>, <<SP, 97>>, <<DQUOTE>>}
MaxUnits == 2

\* the strings of up to n units, each with the bytes meant
RECURSIVE UnitsUpTo(_)
UnitsUpTo(n) ==
    IF n = 0 THEN {[text |-> <<>>, bytes |-> <<>>]}
    ELSE UnitsUpTo(n - 1) \cup
         {[text |-> u.text \o x.text, bytes |-> Append(u.bytes, x.byte)] :
             u \in {y \in UnitsUpTo(n - 1) : Len(y.bytes) = n - 1}, x \in QuoteUnits}

\* a call of f on arg; flags are the flags and switches passed with it
FnCall(f, arg, flags) ==
    [f |-> f, arg |-> arg, flags |-> flags, done |-> FALSE, ret |-> PErr("", <<>>)]
\* a call of unquote_c_style_string on arg, with what it is to return
UnquoteCall(arg, expect) ==
    [f |-> "unquote_c_style_string", arg |-> arg, flags |-> {}, done |-> FALSE,
     ret |-> PErr("", <<>>), expect |-> expect]
MarkCalls == {FnCall("Mark::parse", a, {}) : a \in MarkArgs}
HeaderCalls == {FnCall("DataHeader::parse", a, {}) : a \in HeaderArgs}
NameCalls ==
    {FnCall(f, a, {}) :
        f \in {"Branch::parse", "TagName::parse", "Encoding::parse", "FastImportPath::parse"},
        a \in NameArgs}
IdentCalls == {FnCall("PersonIdent::parse", a, {}) : a \in IdentArgs}
SubmoduleCalls == {FnCall("parse_rewrite_submodules", a, {}) : a \in SubmoduleArgs}
LsCalls == {FnCall("parse_ls", a, fl) : a \in LsArgs, fl \in SUBSET {"in_commit"}}
RefCalls == {FnCall("Refname::check_format", a, fl) : a \in RefArgs, fl \in SUBSET RefnameFlags}
UnquoteCalls ==
    {UnquoteCall(<<DQUOTE>> \o u.text \o <<DQUOTE>> \o t, [err |-> "", v |-> u.bytes, rest |-> t]) :
        u \in UnitsUpTo(MaxUnits), t \in QuoteTails}
OverflowCalls ==
    {UnquoteCall(<<DQUOTE>> \o u.text \o o \o <<DQUOTE>>, QErr("OctalOverflow")) :
        u \in UnitsUpTo(1), o \in OverflowUnits}

\* inputs of a few short lines, some of them comments, and the two ways to
\* have a directive unread: peeked, or consumed and marked unread
PeekArgs == BytesOver({LF, 97, HASH}, MaxArg)
PeekCalls == {FnCall("peek_directive", a, fl) : a \in PeekArgs, fl \in SUBSET {"unread_directive"}}

\* a call of f on arg that is to return expect
ExpectCall(f, arg, expect) ==
    [f |-> f, arg |-> arg, flags |-> {}, done |-> FALSE, ret |-> PErr("", <<>>),
     expect |-> expect]

\* paths: bare ones, with a space or none, and quoted ones with what they
\* stand for
MaxPath == 2
BarePaths == BytesOver({97, 98}, MaxPath) \ {<<>>}
SpacedPaths == BytesOver({97, SP}, MaxPath)
Quoted(x) == <<DQUOTE>> \o x \o <<DQUOTE>>
QuotedPaths == {[text |-> Quoted(x), path |-> x] : x \in BytesOver({97, SP}, MaxPath)}
\* an opening quote that nothing closes makes no C-quoted string
OpenPaths == {<<DQUOTE>> \o x : x \in BytesOver({97}, MaxPath)}
EolPaths == {[text |-> x, path |-> x] : x \in SpacedPaths \cup OpenPaths} \cup QuotedPaths
SourcePaths == {[text |-> x, path |-> x] : x \in BarePaths} \cup QuotedPaths
ModifyHead == ChangeKw.M \o Mode644 \o <<SP>> \o Inline \o <<SP>>
ChangeErr(e) == [err |-> e, v |-> NoChange]

DeleteCalls ==
    {ExpectCall("ChangeIter::next", ChangeKw.D \o x.text,
                POk([kind |-> "FileDelete", path |-> x.path])) : x \in EolPaths}
ModifyCalls ==
    {ExpectCall("ChangeIter::next", ModifyHead \o x.text,
                POk([kind |-> "FileModify", data_ref |-> NoDataRef, mode |-> "File",
                     path |-> x.path])) : x \in EolPaths}
RenameCalls ==
    {ExpectCall("ChangeIter::next", ChangeKw.R \o x.text \o <<SP>> \o y.text,
                IF y.text = <<>> THEN ChangeErr("MissingDest")
                ELSE POk([kind |-> "FileRename", source |-> x.path, dest |-> y.path])) :
        x \in SourcePaths, y \in EolPaths}
CopyCalls ==
    {ExpectCall("ChangeIter::next", ChangeKw.C \o x.text \o <<SP>> \o y.text,
                IF y.text = <<>> THEN ChangeErr("MissingDest")
                ELSE POk([kind |-> "FileCopy", source |-> x.path, dest |-> y.path])) :
        x \in SourcePaths, y \in EolPaths}
\* a source with no space after it, and a quoted destination with bytes
\* after it
BadPathCalls ==
    {ExpectCall("ChangeIter::next", k \o x.text, ChangeErr("NoSpaceAfterSource")) :
        k \in {ChangeKw.R, ChangeKw.C}, x \in SourcePaths}
    \cup {ExpectCall("ChangeIter::next", k \o x.text \o <<97>>, ChangeErr("NoSpaceAfterSource")) :
              k \in {ChangeKw.R, ChangeKw.C}, x \in QuotedPaths}
    \cup {ExpectCall("ChangeIter::next", k \o x.text \o <<SP>> \o y.text \o <<97>>,
                     ChangeErr("JunkAfterDest")) :
              k \in {ChangeKw.R, ChangeKw.C}, x \in SourcePaths, y \in QuotedPaths}

InitFn ==
    /\ \/ call \in MarkCalls
       \/ call \in DeleteCalls
       \/ call \in ModifyCalls
       \/ call \in RenameCalls
       \/ call \in CopyCalls
       \/ call \in BadPathCalls
       \/ call \in PeekCalls
       \/ call \in HeaderCalls
       \/ call \in NameCalls
       \/ call \in IdentCalls
       \/ call \in SubmoduleCalls
       \/ call \in LsCalls
       \/ call \in RefCalls
       \/ call \in UnquoteCalls
       \/ call \in OverflowCalls
    /\ debug \in BOOLEAN
    /\ stream = <<>>
    /\ parser = Parser_new(<<>>)
    /\ ncalls = 0
    /\ cmd = NoCmd
    /\ has_reader = FALSE
    /\ nopen = 0
    /\ result = NoResult
    /\ got = <<>>
    /\ twin = NoTwin

\* the call has been made and has returned ret
Returned(ret) == [call EXCEPT !.done = TRUE, !.ret = ret]
\* a function called on its own leaves the parser and its caller alone
others == <<parser, debug, stream, ncalls, cmd, has_reader, nopen, result, got, twin>>

CallMarkParse ==
    /\ call.f = "Mark::parse" /\ ~call.done
    /\ call' = Returned(Mark_parse(call.arg))
    /\ UNCHANGED others

CallDataHeaderParse ==
    /\ call.f = "DataHeader::parse" /\ ~call.done
    /\ call' = Returned(DataHeader_parse(call.arg))
    /\ UNCHANGED others

CallBranchParse ==
    /\ call.f = "Branch::parse" /\ ~call.done
    /\ call' = Returned(Branch_parse(call.arg))
    /\ UNCHANGED others

CallTagNameParse ==
    /\ call.f = "TagName::parse" /\ ~call.done
    /\ call' = Returned(TagName_parse(call.arg))
    /\ UNCHANGED others

CallPersonIdentParse ==
    /\ call.f = "PersonIdent::parse" /\ ~call.done
    /\ call' = Returned(PersonIdent_parse(call.arg))
    /\ UNCHANGED others

CallEncodingParse ==
    /\ call.f = "Encoding::parse" /\ ~call.done
    /\ call' = Returned(Encoding_parse(call.arg))
    /\ UNCHANGED others

CallFastImportPathParse ==
    /\ call.f = "FastImportPath::parse" /\ ~call.done
    /\ call' = Returned(FastImportPath_parse(call.arg))
    /\ UNCHANGED others

CallParseRewriteSubmodules ==
    /\ call.f = "parse_rewrite_submodules" /\ ~call.done
    /\ call' = Returned(parse_rewrite_submodules(call.arg))
    /\ UNCHANGED others

CallParseLs ==
    /\ call.f = "parse_ls" /\ ~call.done
    /\ call' = Returned(parse_ls(call.arg, "in_commit" \in call.flags))
    /\ UNCHANGED others

CallCheckFormat ==
    /\ call.f = "Refname::check_format" /\ ~call.done
    /\ \E e \in {check_format(call.arg, call.flags)} :
           call' = Returned(IF e = "" THEN POk(<<>>) ELSE PErr(e, <<>>))
    /\ UNCHANGED others

CallUnquote ==
    /\ call.f = "unquote_c_style_string" /\ ~call.done
    /\ call' = Returned(unquote_c_style_string(call.arg))
    /\ UNCHANGED others

\* ChangeIter::next on the directive call.arg, a change: the change that it
\* parses the line to
CallParseChange ==
    /\ call.f = "ChangeIter::next" /\ ~call.done
    /\ call' = Returned(parse_change(call.arg))
    /\ UNCHANGED others

\* on a BufInput over call.arg: peek_directive (or next_directive and
\* unread_directive), then peek_directive, then next_directive; what each
\* returned and what was left of the source after it
CallPeek ==
    /\ call.f = "peek_directive" /\ ~call.done
    /\ \E p0 \in {Parser_new(call.arg)} :
       \E a \in {IF "unread_directive" \in call.flags THEN next_directive(p0)
                  ELSE peek_directive(p0)} :
       \E p1 \in {IF "unread_directive" \in call.flags /\ a.some /\ ~a.p.panicked
                   THEN unread_directive(a.p) ELSE a.p} :
       \E b \in {peek_directive(p1)} :
       \E c \in {next_directive(b.p)} :
           call' = Returned([first |-> Opt([some |-> a.some, v |-> a.line]),
                             second |-> Opt([some |-> b.some, v |-> b.line]),
                             third |-> Opt([some |-> c.some, v |-> c.line]),
                             left |-> <<p1.r, b.p.r, c.p.r>>,
                             panicked |-> p1.panicked \/ b.p.panicked \/ c.p.panicked])
    /\ UNCHANGED others

NextFn ==
    \/ CallMarkParse
    \/ CallDataHeaderParse
    \/ CallBranchParse
    \/ CallTagNameParse
    \/ CallPersonIdentParse
    \/ CallEncodingParse
    \/ CallFastImportPathParse
    \/ CallParseRewriteSubmodules
    \/ CallParseLs
    \/ CallCheckFormat
    \/ CallUnquote
    \/ CallPeek
    \/ CallParseChange

SpecFn == InitFn /\ [][NextFn]_vars

----------------------------------------------------------------------------
(* What the input says the n-th Parser::next returns *)

Eof == [kind |-> "Done", done |-> "Eof"]
Expected(n) == IF n \in 1..Len(stream) THEN stream[n].c ELSE Eof
\* the command in hand is the n-th of the input, as written
InHand == ncalls \in 1..Len(stream) /\ cmd.err = "" /\ cmd.c = stream[ncalls].c
\* the last call was a Parser::next
JustCalled == ncalls >= 1 /\ result.op = "none"

----------------------------------------------------------------------------
(* The claims *)

\* C1: single-open.  Of the open() calls made on a blob since the
\* Parser::next that returned it, the first returns a reader and every later
\* one fails with AlreadyOpened, whatever was done with the first reader
\* (read, skipped, closed or dropped); the count starts again with the blob
\* that a later Parser::next returns.
C1_SingleOpen ==
    result.op = "open" =>
        /\ (nopen = 1 => result.err = "")
        /\ (nopen > 1 => result.err = "AlreadyOpened")

\* the second blob of a stream, whose first blob had been opened too, has
\* been opened twice: its second open() is the last call
C1_Witness ==
    /\ ncalls = 2 /\ cmd.before.blob /\ cmd.before.opened
    /\ cmd.c.kind = "Blob"
    /\ result.op = "open" /\ nopen = 2 /\ ~has_reader

\* C2: Parser::next on an unfinished payload.  When the blob returned
\* before was left with its payload unfinished, the Parser::next that follows
\* fails with Unfinished if a reader was opened for it and otherwise skips the
\* rest of the payload and returns the command that follows it.
C2_UnfinishedPayload ==
    (JustCalled /\ cmd.before.blob /\ cmd.before.ok /\ ~cmd.before.finished) =>
        IF cmd.before.opened THEN cmd.err = "Unfinished"
        ELSE (cmd.err = "" /\ cmd.c = Expected(ncalls))

\* C3: an optional LF is no blank directive.  After a command written with
\* its optional LF (progress, checkpoint, alias, or a data payload of any
\* length that was read to the end, skipped or never opened), Parser::next
\* returns the command that follows, as it does without the LF, and not
\* UnexpectedBlank.
C3_OptionalLf ==
    (/\ JustCalled /\ (ncalls - 1) \in 1..Len(stream) /\ cmd.before.ok
     /\ stream[ncalls - 1].lf
     /\ (cmd.before.blob => (cmd.before.finished \/ ~cmd.before.opened)))
        => (cmd.err = "" /\ cmd.c = Expected(ncalls))

\* C4: optional sub-directives may be left out.  A blob, reset, commit or tag
\* written with any of its optional sub-directives absent parses to the
\* command it was written from: the absent fields None, the others and the
\* data header as when they are all present.
C4_OptionalOmitted ==
    (JustCalled /\ ncalls = 1 /\ stream[1].c.kind \in {"Blob", "Reset", "Commit", "Tag"}) =>
        (cmd.err = "" /\ cmd.c = stream[1].c)

\* C5: reading a payload to its end leaves the parser where never opening it
\* does.  After a blob whose payload the caller read to the end through the
\* reader, Parser::next returns what it returns when called right after the
\* blob was returned, and the source is consumed to the same position.
C5_ReadOrNeverOpen ==
    (/\ JustCalled /\ cmd.before.blob /\ cmd.before.ok
     /\ cmd.before.opened /\ cmd.before.finished /\ ~cmd.before.skipped)
        => LET ref == Parser_next(cmd.before.at)
           IN  cmd.err = ref.err /\ cmd.c = ref.c /\ parser.r = ref.p.r

\* C6: partial read, then skip.  When k bytes of a blob's payload of N bytes
\* have been read, the first skip_rest() returns N - k and leaves
\* len_read() = N and finished() = true, and the Parser::next after it
\* returns the command that follows the payload.
C6_ReadThenSkip ==
    [][/\ (/\ result'.op = "skip" /\ ~result.skipped /\ ~result.closed
           /\ InHand /\ cmd.c.kind = "Blob")
          => /\ result'.err = ""
             /\ result'.n = Len(stream[ncalls].payload) - Len(got)
             /\ parser'.len_read = Len(stream[ncalls].payload)
             /\ parser'.finished
       /\ (ncalls' = ncalls + 1 /\ InHand /\ cmd.c.kind = "Blob" /\ result.skipped)
          => cmd'.err = "" /\ cmd'.c = Expected(ncalls')]_vars

\* C7: the close protocol.  close() on a finished stream returns Ok the
\* first time and Closed every later time; close() on an unfinished stream
\* returns Unfinished and does not close it; read and skip_rest return Closed
\* exactly when a close() of this reader has returned Ok.
C7_CloseProtocol ==
    [][/\ result'.op = "close" =>
              result'.err = IF result.closed THEN "Closed"
                            ELSE IF parser.finished THEN "" ELSE "Unfinished"
       /\ result'.op \in {"read", "skip"} /\ ~parser'.panicked =>
              (result'.err = "Closed" <=> result.closed)]_vars

\* a read has returned Closed on a reader that had been read to the end of
\* a payload and then closed
C7_Witness ==
    /\ result.op = "read" /\ result.err = "Closed" /\ result.closed
    /\ got # <<>> /\ parser.finished


\* C8: comments are transparent.  With comment lines in front of any
\* directive of the stream, an optional LF included, every Parser::next
\* returns the command or the error that it returns without them.
C8_CommentsTransparent == twin.on => (cmd.err = twin.err /\ cmd.c = twin.c)

\* C9: round trip of commands.  A command with nothing left out, written by
\* the emitter (an `option git` command, another option, a blob with mark and
\* original-oid), parses to the same command again.
C9_RoundTrip ==
    (/\ JustCalled /\ ncalls = 1 /\ stream[1].emitted
     /\ (stream[1].c.kind = "Blob"
            => (stream[1].c.mark.some /\ stream[1].c.original_oid.some)))
        => (cmd.err = "" /\ cmd.c = stream[1].c)

\* C10: round trip of counted payloads.  A payload d of any bytes and any
\* length, written in counted form, is parsed with the header `data Len(d)`;
\* the bytes a reader returns up to the end of a blob's payload, and the
\* message of a commit, are d.
C10_CountedRoundTrip ==
    /\ (JustCalled /\ ncalls = 1 /\ stream[1] \in PayloadBlobs \cup PayloadCommits)
           => (cmd.err = "" /\ cmd.c = stream[1].c)
    /\ (/\ InHand /\ cmd.c.kind = "Blob" /\ cmd.c.data_header.counted
        /\ parser.finished /\ ~result.skipped)
           => got = stream[ncalls].payload

\* a blob's counted payload of a NUL and an LF has been read to its end
C10_Witness ==
    /\ ncalls = 1 /\ stream[1] \in PayloadBlobs /\ cmd.c.kind = "Blob"
    /\ cmd.c.data_header = [counted |-> TRUE, len |-> 2, delim |-> <<>>]
    /\ parser.finished /\ result.op = "read" /\ got = <<NUL, LF>>

----------------------------------------------------------------------------
(* The data value the first command of a SpecData stream was written from *)

HasData == "data" \in DOMAIN stream[1]
\* l is one of the lines of data
HasLine(data, l) ==
    /\ ~Contains(l, LF)
    /\ \E i \in 1..(Len(data) + 1) :
           /\ i = 1 \/ data[i - 1] = LF
           /\ i + Len(l) - 1 <= Len(data)
           /\ SubSeq(data, i, i + Len(l) - 1) = l
           /\ i + Len(l) = Len(data) + 1 \/ data[i + Len(l)] = LF
\* d has a delimiter that is not empty and has no NUL, and a payload that
\* ends with LF, has no NUL and has no line equal to the delimiter
Delimitable(d) ==
    /\ d.delim.some /\ d.delim.v # <<>> /\ ~Contains(d.delim.v, NUL)
    /\ EndsWith(d.data, <<LF>>) /\ ~Contains(d.data, NUL)
    /\ ~HasLine(d.data, d.delim.v)
DelimitedForm(d) ==
    <<100, 97, 116, 97, 32, 60, 60>> \o d.delim.v \o <<LF>> \o d.data \o d.delim.v \o <<LF, LF>>
CountedForm(d) ==
    <<100, 97, 116, 97, 32>> \o FormatInt(Len(d.data)) \o <<LF>> \o d.data \o <<LF>>

\* C11: round trip of delimited payloads.  A payload that ends with LF, has
\* no NUL and no line equal to the delimiter, written by the emitter with a
\* delimiter that is not empty and has no NUL, is parsed back to the same
\* bytes: as the message of a commit or of a tag, and as the bytes a reader
\* returns up to the end of a blob's payload, under a header with that
\* delimiter.
C11_DelimitedRoundTrip ==
    (ncalls = 1 /\ HasData /\ Delimitable(stream[1].data)) =>
        /\ cmd.err = ""
        /\ cmd.c.kind \in {"Commit", "Tag"} => cmd.c.message = stream[1].data.data
        /\ cmd.c.kind = "Blob" =>
               /\ cmd.c.data_header =
                      [counted |-> FALSE, len |-> 0, delim |-> stream[1].data.delim.v]
               /\ (parser.finished /\ ~result.skipped) => got = stream[1].data.data

\* C12: the emitter's choice of framing.  A data value with a delimiter is
\* written in delimited form (`data <<` delim LF, payload, delim LF) exactly
\* when its payload ends with LF, has no NUL and no line equal to the
\* delimiter and the delimiter is not empty and has no NUL; every other
\* value, and every value without a delimiter, is written in counted form
\* (`data N` LF, payload) with N the length of the payload; the optional LF
\* ends both forms.
C12_FramingChoice ==
    HasData =>
        stream[1].dumped = IF Delimitable(stream[1].data) THEN DelimitedForm(stream[1].data)
                           ELSE CountedForm(stream[1].data)

\* l stands somewhere in data
Occurs(data, l) ==
    \E i \in 1..(Len(data) + 1) :
        i + Len(l) - 1 <= Len(data) /\ SubSeq(data, i, i + Len(l) - 1) = l

\* C13: a delimited payload ends only at a line equal to the delimiter.  A
\* payload with a line that the delimiter is only a part of (its beginning or
\* any other part) is payload up to its last line: that line is among the
\* bytes the reads return, in the count of skip_rest (the payload's length
\* less the bytes read before), and in the message read for a commit or a
\* tag, and the command after the payload is the one that follows the closing
\* delimiter.
C13_ExactDelimiter ==
    [][(/\ ncalls' >= 1 /\ HasData /\ Delimitable(stream[1].data)
        /\ ~Contains(stream[1].data.delim.v, LF)
        /\ Occurs(stream[1].data.data, stream[1].data.delim.v))
       => /\ ncalls' = 1 =>
                 /\ cmd'.err = ""
                 /\ cmd'.c.kind \in {"Commit", "Tag"} => cmd'.c.message = stream[1].data.data
                 /\ (cmd'.c.kind = "Blob" /\ parser'.finished /\ ~result'.skipped)
                        => got' = stream[1].data.data
                 /\ (cmd'.c.kind = "Blob" /\ result'.op = "skip" /\ ~result.skipped
                        /\ ~result.closed)
                        => /\ result'.err = ""
                           /\ result'.n = Len(stream[1].data.data) - Len(got)
                           /\ parser'.finished
          /\ (ncalls' = 2 /\ ncalls = 1 /\ (parser.finished \/ ~parser.data_opened))
                 => cmd'.err = "" /\ cmd'.c = Expected(2)]_vars

\* the payload `EE` LF of a blob delimited by `E` has been read to its end
\* by two reads
C13_Witness ==
    /\ ncalls = 1 /\ HasData /\ cmd.c.kind = "Blob"
    /\ stream[1].data = [data |-> <<69, 69, LF>>, delim |-> Some(<<69>>)]
    /\ cmd.c.data_header = [counted |-> FALSE, len |-> 0, delim |-> <<69>>]
    /\ parser.finished /\ result.op = "read" /\ got = <<69, 69, LF>>

\* C14: the empty counted payload.  A blob written with the header `data 0`
\* parses to the blob written; its data stream is finished with no byte read
\* before any read is made, and every read of its reader returns no byte
\* and takes nothing from the input, which stays where Parser::next left it.
C14_EmptyPayload ==
    (/\ ncalls = 1 /\ stream[1].c.kind = "Blob"
     /\ stream[1].c.data_header = [counted |-> TRUE, len |-> 0, delim |-> <<>>])
        => /\ cmd.err = "" /\ cmd.c = stream[1].c
           /\ parser.finished /\ parser.len_read = 0
           /\ result.op = "read" =>
                  (result.err \in {"", "Closed"} /\ result.n = 0 /\ got = <<>>)
           /\ parser.r = cmd.at.r

\* the value of the decimal digits d, for at most nine of them
DigitsValue(d) ==
    LET RECURSIVE Sum(_)
        Sum(k) == IF k = 0 THEN 0 ELSE Sum(k - 1) * 10 + (d[k] - 48)
    IN  Sum(Len(d))
\* the digits d without the zeros in front of them
Significant(d) ==
    IF \A k \in 1..Len(d) : d[k] = 48 THEN <<>>
    ELSE SubSeq(d, CHOOSE k \in 1..Len(d) : d[k] # 48 /\ \A j \in 1..(k - 1) : d[j] = 48, Len(d))
\* d, twenty digits, as four numbers of five digits
Fives(d) == [k \in 1..4 |-> DigitsValue(SubSeq(d, 5 * k - 4, 5 * k))]
\* the number written d is below 2^64 = 18446 74407 37095 51616
Below2To64(d) ==
    LET s == Significant(d)
        f == Fives(s)
        m == <<18446, 74407, 37095, 51616>>
    IN  \/ Len(s) < 20
        \/ Len(s) = 20 /\ \E k \in 1..4 : f[k] < m[k] /\ \A j \in 1..(k - 1) : f[j] = m[j]

\* C15: Mark::parse.  An argument without a leading ':' gives
\* MarkMissingColon; after the ':', no digits, a byte that is no decimal
\* digit (a '+' or '-' sign included) or a value of 2^64 or more gives
\* InvalidMark; digits of value zero give ZeroMark; any other digits are
\* accepted, and the mark returned is their value, from 1 to 2^64 - 1.
C15_MarkParse ==
    (call.f = "Mark::parse" /\ call.done) =>
        LET a == call.arg
            d == Tail(a)
        IN  IF a = <<>> \/ a[1] # 58 THEN call.ret.err = "MarkMissingColon"
            ELSE IF d = <<>> \/ (\E k \in 1..Len(d) : d[k] \notin 48..57) \/ ~Below2To64(d)
            THEN call.ret.err = "InvalidMark"
            ELSE IF Significant(d) = <<>> THEN call.ret.err = "ZeroMark"
            ELSE /\ call.ret.err = ""
                 /\ IF Len(Significant(d)) <= 9 THEN call.ret.v = DigitsValue(Significant(d))
                    ELSE call.ret.v = Significant(d)

\* Mark::parse has returned the mark 2^64 - 1 for `:18446744073709551615`
C15_Witness ==
    /\ call.f = "Mark::parse" /\ call.done
    /\ call.arg = <<58>> \o U64_MAX
    /\ call.ret = POk(U64_MAX)

\* C16: the delimiter of a data header.  DataHeader::parse accepts a
\* delimited header only with the delimiter that follows `<<`, which is not
\* empty and has no NUL: the argument `<<` gives EmptyDelim and `<<` with a
\* NUL after it (`<<E\0E`) gives DataDelimContainsNul; the header is judged
\* by its argument alone, with nothing read from the input.
C16_HeaderDelim ==
    (call.f = "DataHeader::parse" /\ call.done) =>
        /\ (call.ret.err = "" /\ ~call.ret.v.counted) =>
               /\ call.ret.v.delim # <<>>
               /\ \A k \in 1..Len(call.ret.v.delim) : call.ret.v.delim[k] # 0
               /\ call.arg = <<60, 60>> \o call.ret.v.delim
        /\ call.arg = <<60, 60>> => call.ret.err = "EmptyDelim"
        /\ (/\ Len(call.arg) > 2 /\ SubSeq(call.arg, 1, 2) = <<60, 60>>
            /\ \E k \in 3..Len(call.arg) : call.arg[k] = 0)
               => call.ret.err = "DataDelimContainsNul"
        /\ parser = Parser_new(<<>>)

\* DataHeader::parse has refused `<<E\0E`
C16_Witness ==
    /\ call.f = "DataHeader::parse" /\ call.done
    /\ call.arg = <<60, 60, 69, 0, 69>>
    /\ call.ret.err = "DataDelimContainsNul"

HasNul(b) == \E k \in 1..Len(b) : b[k] = 0
\* the error of the parse function f for a NUL in its argument
NulError(f) ==
    CASE f = "Branch::parse" -> "BranchContainsNul"
      [] f = "TagName::parse" -> "TagContainsNul"
      [] f = "PersonIdent::parse" -> "IdentContainsNul"
      [] f = "Encoding::parse" -> "EncodingContainsNul"
      [] f = "FastImportPath::parse" -> "PathContainsNul"
      [] f = "parse_rewrite_submodules" -> "RewriteSubmodulesContainsNul"
      [] f = "parse_ls" -> "PathContainsNul"

\* C17: no NUL in an accepted field.  The branch name, tag name, person
\* identity (name, email and date), encoding, path and submodule spec that
\* a parse function accepts have no NUL byte, the path of an `ls` included;
\* an argument with a NUL is refused with the error of the field.
C17_NoNul ==
    (call.done /\ call.f \in {"Branch::parse", "TagName::parse", "PersonIdent::parse",
                              "Encoding::parse", "FastImportPath::parse",
                              "parse_rewrite_submodules", "parse_ls"}) =>
        /\ (call.ret.err = "" /\ call.f \in {"Branch::parse", "TagName::parse",
                                               "Encoding::parse", "FastImportPath::parse"})
               => ~HasNul(call.ret.v)
        /\ (call.ret.err = "" /\ call.f = "PersonIdent::parse")
               => ~(HasNul(call.ret.v.name) \/ HasNul(call.ret.v.email) \/ HasNul(call.ret.v.date))
        /\ (call.ret.err = "" /\ call.f = "parse_rewrite_submodules")
               => ~(HasNul(call.ret.v.submodule_name) \/ HasNul(call.ret.v.marks_path))
        /\ (call.ret.err = "" /\ call.f = "parse_ls") => ~HasNul(call.ret.v.path)
        /\ (HasNul(call.arg) /\ call.f # "parse_ls") => call.ret.err = NulError(call.f)

\* the n-th Parser::next has just returned, on lines that are to fail, after
\* a command that parsed as written and left no payload half read
AtFailing(n) ==
    /\ JustCalled /\ ncalls = n /\ n \in 1..Len(stream)
    /\ "expect" \in DOMAIN stream[n]
    /\ n > 1 => (cmd.before.ok /\ (cmd.before.blob => (cmd.before.finished \/ ~cmd.before.opened)))

\* C18: blank and unknown lines.  Where Parser::next is to read a command,
\* on the first line of the stream as after any command, an empty line gives
\* UnexpectedBlank and a line that begins no command (and no comment) gives
\* UnrecognizedCommand.
C18_BlankOrUnknown ==
    \A n \in 1..2 :
        (AtFailing(n) /\ stream[n].expect \in {"UnexpectedBlank", "UnrecognizedCommand"})
            => cmd.err = stream[n].expect

\* the errors of a command that lacks a mandatory sub-directive
LackErrors ==
    {"ExpectedBlobData", "ExpectedCommitCommitter", "ExpectedCommitMessage", "ExpectedTagFrom",
     "ExpectedTagMessage", "ExpectedAliasMark", "ExpectedAliasTo"}

\* C19: missing sub-directives.  A command whose mandatory sub-directive is
\* absent, or stands where the grammar does not have it, fails with the error
\* of the first sub-directive that is missing: ExpectedBlobData,
\* ExpectedCommitCommitter, ExpectedCommitMessage, ExpectedTagFrom,
\* ExpectedTagMessage, ExpectedAliasMark or ExpectedAliasTo.
C19_MissingDirective ==
    \A n \in 1..2 :
        (AtFailing(n) /\ stream[n].expect \in LackErrors) => cmd.err = stream[n].expect

\* the bytes no reference name may hold
ForbiddenBytes == (0..UNIT_SEP) \cup {DEL, SP, COLON, QUESTION, LBRACKET, BACKSLASH, CARET, TILDE}

\* a component of r begins at i
ComponentStart(r, i) == i = 1 \/ r[i - 1] = SLASH
\* a component of r ends at i
ComponentEnd(r, i) == i = Len(r) \/ r[i + 1] = SLASH

\* the rules of git check-ref-format for the name r under the flags F
WellFormedRef(r, F) ==
    /\ r # <<>>
    /\ r[1] # SLASH /\ r[Len(r)] # SLASH
    /\ \A i \in 1..(Len(r) - 1) :
           /\ ~(r[i] = SLASH /\ r[i + 1] = SLASH)
           /\ ~(r[i] = DOT /\ r[i + 1] = DOT)
           /\ ~(r[i] = AT /\ r[i + 1] = LBRACE)
    /\ \A i \in 1..Len(r) : ~(r[i] = DOT /\ ComponentStart(r, i))
    /\ \A i \in 1..(Len(r) - 4) : ~(SubSeq(r, i, i + 4) = DotLock /\ ComponentEnd(r, i + 4))
    /\ r # <<AT>>
    /\ \A i \in 1..Len(r) : r[i] \notin ForbiddenBytes
    /\ Cardinality({i \in 1..Len(r) : r[i] = STAR}) <= (IF "RefspecPattern" \in F THEN 1 ELSE 0)
    /\ r[Len(r)] # DOT
    /\ "AllowOneLevel" \in F \/ \E i \in 1..Len(r) : r[i] = SLASH

\* C20: the format of reference names.  Refname::check_format(r, F) returns
\* Ok exactly when r keeps every rule of git check-ref-format: it is not
\* empty; no '/' begins or ends it or follows another; no component is ".",
\* begins with '.' or ends with ".lock"; it has no "..", no "@{" and is not
\* "@"; it has no control character, DEL, space, ':', '?', '[', backslash,
\* '^' or '~'; it has no '*', or one with RefspecPattern; no '.' ends it; and
\* it has two components or more unless AllowOneLevel is set.
C20_CheckFormat ==
    (call.f = "Refname::check_format" /\ call.done)
        => (call.ret.err = "" <=> WellFormedRef(call.arg, call.flags))

\* a pattern of two components with its one '*' is accepted
C20_Witness ==
    /\ call.f = "Refname::check_format" /\ call.done /\ call.ret.err = ""
    /\ call.flags = {"RefspecPattern"}
    /\ \E i \in 1..Len(call.arg) : call.arg[i] = STAR
    /\ \E i \in 1..Len(call.arg) : call.arg[i] = SLASH

\* the components of the name r, which '/' separates
RECURSIVE SplitSlash(_)
SplitSlash(r) ==
    IF \A i \in 1..Len(r) : r[i] # SLASH THEN <<r>>
    ELSE LET i == CHOOSE j \in 1..Len(r) : r[j] = SLASH /\ \A k \in 1..(j - 1) : r[k] # SLASH
         IN <<SubSeq(r, 1, i - 1)>> \o SplitSlash(SubSeq(r, i + 1, Len(r)))

CountStars(c) == Cardinality({i \in 1..Len(c) : c[i] = STAR})

\* the error of the byte b where no byte is allowed to be b
ByteError(b) ==
    CASE b = SP -> "Space" [] b = COLON -> "Colon" [] b = QUESTION -> "Question"
      [] b = LBRACKET -> "OpenBracket" [] b = BACKSLASH -> "Backslash" [] b = CARET -> "Caret"
      [] b = TILDE -> "Tilde" [] OTHER -> "ControlChar"

\* the errors of the rules that the k-th of the components cs breaks, under
\* the flags F; before is the number of '*' in the components in front of it
ComponentOffences(cs, k, F, before) ==
    LET c == cs[k]
        allowed == IF "RefspecPattern" \in F THEN 1 ELSE 0
    IN  IF c = <<>>
        THEN {IF Len(cs) = 1 THEN "Empty" ELSE IF k = 1 THEN "StartsWithSlash"
              ELSE IF k = Len(cs) THEN "EndsWithSlash" ELSE "SlashSlash"}
        ELSE {ByteError(c[i]) : i \in {j \in 1..Len(c) : c[j] \in ForbiddenBytes}}
             \cup (IF before + CountStars(c) > allowed
                   THEN {IF allowed = 1 THEN "MultipleAsterisks" ELSE "Asterisk"} ELSE {})
             \cup (IF \E i \in 1..(Len(c) - 1) : c[i] = DOT /\ c[i + 1] = DOT
                   THEN {"DotDot"} ELSE {})
             \cup (IF \E i \in 1..(Len(c) - 1) : c[i] = AT /\ c[i + 1] = LBRACE
                   THEN {"AtBrace"} ELSE {})
             \cup (IF c = <<DOT>> THEN {"ComponentIsDot"} ELSE {})
             \cup (IF Len(c) > 1 /\ c[1] = DOT THEN {"ComponentStartsWithDot"} ELSE {})
             \cup (IF EndsWith(c, DotLock) THEN {"ComponentEndsWithDotLock"} ELSE {})

\* the errors of the rules about the whole name that r breaks
NameOffences(r, F) ==
    (IF r = <<AT>> THEN {"IsAt"} ELSE {})
    \cup (IF EndsWith(r, <<DOT>>) THEN {"EndsWithDot"} ELSE {})
    \cup (IF "AllowOneLevel" \notin F /\ Len(SplitSlash(r)) < 2 THEN {"OnlyOneLevel"} ELSE {})

\* the number of '*' in the first n of the components cs
RECURSIVE StarsIn(_, _)
StarsIn(cs, n) == IF n = 0 THEN 0 ELSE StarsIn(cs, n - 1) + CountStars(cs[n])

\* the errors check_format may give for r: those of the first component that
\* breaks a rule, and those of the whole name where no component breaks one
ExpectedErrors(r, F) ==
    LET cs == SplitSlash(r)
        bad == {k \in 1..Len(cs) : ComponentOffences(cs, k, F, StarsIn(cs, k - 1)) # {}}
    IN  IF bad = {} THEN NameOffences(r, F)
        ELSE LET k == CHOOSE x \in bad : \A y \in bad : x <= y
             IN ComponentOffences(cs, k, F, StarsIn(cs, k - 1))

\* C21: the error of check_format.  The error is one of the first component
\* that breaks a rule (an empty component breaks one), and an error of the
\* whole name only where no component breaks a rule: a name of one component
\* without AllowOneLevel gives OnlyOneLevel, a '*' without RefspecPattern
\* gives Asterisk, a second '*' with RefspecPattern gives MultipleAsterisks,
\* "foo.lock///bar" gives ComponentEndsWithDotLock, "heads///foo.lock" gives
\* SlashSlash, "*" with RefspecPattern alone gives OnlyOneLevel and "/" with
\* AllowOneLevel gives StartsWithSlash.
C21_SpecificError ==
    (call.f = "Refname::check_format" /\ call.done /\ call.ret.err # "")
        => LET r == call.arg
               F == call.flags
               e == call.ret.err
           IN  /\ e \in ExpectedErrors(r, F)
               /\ r = Foo \o DotLock \o Slashes \o Bar => e = "ComponentEndsWithDotLock"
               /\ r = Heads \o Slashes \o Foo \o DotLock => e = "SlashSlash"
               /\ (r = <<STAR>> /\ F = {"RefspecPattern"}) => e = "OnlyOneLevel"
               /\ (r = <<SLASH>> /\ F = {"AllowOneLevel"}) => e = "StartsWithSlash"
               /\ (r = Foo \o <<SLASH, STAR, SLASH, STAR>> /\ "RefspecPattern" \in F)
                      => e = "MultipleAsterisks"
               /\ (r = Foo \o <<SLASH, STAR>> /\ "RefspecPattern" \notin F) => e = "Asterisk"

\* a name whose first component ends with ".lock" and whose later components
\* are empty has been refused
C21_Witness ==
    /\ call.f = "Refname::check_format" /\ call.done
    /\ call.arg = Foo \o DotLock \o Slashes \o Bar
    /\ call.ret.err = "ComponentEndsWithDotLock"

\* C22: unquoting inverts quoting.  unquote_c_style_string, given a double
\* quote, the bytes of b written as themselves, as letter escapes or as octal
\* escapes of three digits that begin with 0..3, a double quote and a tail t,
\* returns (b, t); given an octal escape that begins with 4..7 it fails with
\* OctalOverflow.
C22_UnquoteInverts ==
    (call.f = "unquote_c_style_string" /\ call.done) => call.ret = call.expect

\* the threads whose open() has returned a reader
Readers == {t \in Threads : call.pc[t] = "reader"}

\* C23: open() from several threads.  When several threads call open() on
\* the same blob, in every interleaving at most one of them ever holds a
\* reader, and once all the calls have returned exactly one has returned a
\* reader and every other has failed with AlreadyOpened.
C23_OneReader ==
    call.f = "DataStream::open"
        => /\ Cardinality(Readers) <= 1
           /\ \A t \in Threads : call.pc[t] = "failed" => call.err[t] = "AlreadyOpened"
           /\ (\A t \in Threads : call.pc[t] \in {"reader", "failed"})
                  => Cardinality(Readers) = 1

\* all the threads have returned from open() on the second blob of the
\* stream, and the one that got the reader has read from it
C23_Witness ==
    /\ call.f = "DataStream::open" /\ ncalls = 2
    /\ \A t \in Threads : call.pc[t] \in {"reader", "failed"}
    /\ call.pc[2] = "reader"
    /\ got # <<>>

\* C24: the lookahead is stable.  Once a directive has been peeked, or
\* consumed and marked unread again, the next peek_directive and the
\* next_directive after it return the bytes of the first peek, the line
\* without its LF, and read nothing more from the source.
C24_StableLookahead ==
    (call.f = "peek_directive" /\ call.done /\ call.ret.first.some)
        => /\ ~call.ret.panicked
           /\ call.ret.second = call.ret.first
           /\ call.ret.third = call.ret.first
           /\ call.ret.left[2] = call.ret.left[1]
           /\ call.ret.left[3] = call.ret.left[1]

\* the reader of the blob that Parser::next has just returned as written has
\* read nothing of its payload yet
FreshReader ==
    /\ ncalls \in 1..Len(stream)
    /\ cmd.err = "" /\ cmd.c.kind = "Blob" /\ cmd.c = stream[ncalls].c
    /\ has_reader /\ got = <<>> /\ parser.len_read = 0 /\ ~parser.finished

\* C25: a data stream starts clean.  The bytes that the first read of a blob
\* returns are the first bytes of that blob's payload, and the count that a
\* skip_rest before any read returns is the length of that payload: nothing
\* of the line buffer or the offset of an earlier data stream is in them.
C25_CleanStart ==
    [][(FreshReader /\ ncalls' = ncalls /\ result'.err = "")
          => /\ result'.op = "read" => StartsWith(stream[ncalls].payload, got')
             /\ result'.op = "skip" => result'.n = Len(stream[ncalls].payload)]_vars

\* what the input has after the LF of the `data` line of its n-th command, a
\* blob: the payload, what ends it, and the commands that follow
AfterHeader(n) ==
    stream[n].segs[Len(stream[n].segs)].t \o StreamText(SubSeq(stream, n + 1, Len(stream)))

\* Parser::next has just returned the n-th command of the input, a blob
BlobReturned(n) ==
    /\ JustCalled /\ ncalls = n /\ n \in 1..Len(stream)
    /\ stream[n].c.kind = "Blob" /\ cmd.err = "" /\ cmd.c.kind = "Blob"
    /\ n > 1 => cmd.before.ok

\* C26: the source after a blob is returned.  When Parser::next has returned
\* a blob, the source is consumed up to and including the LF of the `data`
\* line, and no byte of the payload; and until the next Parser::next only
\* read_next and skip_rest of the reader consume more of the source.
C26_CursorAtPayload ==
    /\ [](\A n \in 1..MaxCmds : BlobReturned(n) => parser.r = AfterHeader(n))
    /\ [][(ncalls' = ncalls /\ parser'.r # parser.r) => result'.op \in {"read", "skip"}]_vars

\* the second command of the input, a blob with a payload, has been returned
\* with the source at the first byte of the payload
C26_Witness ==
    /\ BlobReturned(2) /\ parser.r = AfterHeader(2)
    /\ stream[2].payload # <<>>

\* the last call was a read_next with a buffer that is not empty, and it
\* returned
ReadReturned ==
    result.op = "read" /\ result.buf > 0 /\ result.err # "panic" /\ ~parser.panicked

\* C27: a read returns 0 only at the end.  A read with a buffer that is not
\* empty returns Ok(0) only when the data stream is finished; while it is not
\* finished, a read that succeeds returns one byte or more, empty lines of
\* the payload too, and where the source ends inside the payload the read
\* fails with DataUnexpectedEof (counted) or UnterminatedData (delimited).
C27_ZeroOnlyAtEnd ==
    ReadReturned
        => /\ (result.err = "" /\ result.n = 0) => parser.finished
           /\ (result.err \notin UsageErrors)
                  => result.err = IF parser.is_counted THEN "DataUnexpectedEof"
                                  ELSE "UnterminatedData"

\* the blob in hand was returned as written, and its reader has returned no
\* error
ByteReading ==
    /\ ncalls \in 1..Len(stream)
    /\ cmd.err = "" /\ cmd.c.kind = "Blob" /\ cmd.c = stream[ncalls].c
    /\ has_reader /\ result.err = ""

\* every byte of the payload has been read and the read after them has
\* returned 0
ByteReadingDone ==
    /\ ByteReading /\ result.op = "read" /\ result.n = 0
    /\ parser.finished /\ got = stream[ncalls].payload

\* C28: reading one byte at a time.  Of a payload of N bytes, counted or
\* delimited, the reads with a buffer of 1 byte return the N bytes one after
\* the other; the read after them returns 0 with the data stream finished;
\* and the Parser::next after that returns the command that follows.
C28_ByteByByte ==
    /\ [][(ByteReading /\ result'.op = "read")
             => Let(stream[ncalls].payload, LAMBDA d :
                    IF Len(got) < Len(d)
                    THEN /\ result'.err = "" /\ result'.n = 1
                         /\ got' = SubSeq(d, 1, Len(got) + 1)
                    ELSE /\ result'.err = "" /\ result'.n = 0
                         /\ got' = d /\ parser'.finished)]_vars
    /\ [][(ByteReadingDone /\ ncalls' = ncalls + 1)
             => (cmd'.err = "" /\ cmd'.c = Expected(ncalls + 1))]_vars

IdentErrors ==
    {"IdentContainsNul", "IdentNoLtOrGt", "IdentNoLtBeforeGt", "IdentNoSpaceBeforeLt",
     "IdentNoGtAfterLt", "IdentNoSpaceAfterGt"}

\* ident is NAME, space, '<', EMAIL, '>', space, DATE with its '<' at index
\* i and its '>' at index j: NAME and EMAIL have no '<' and no '>', and NAME
\* and its space may be absent
IdentShape(ident, i, j) ==
    /\ i < j /\ ident[i] = LT /\ ident[j] = GT
    /\ \A k \in (1..(i - 1)) \cup ((i + 1)..(j - 1)) : ~IsLtGt(ident[k])
    /\ i = 1 \/ ident[i - 1] = SP
    /\ j + 1 <= Len(ident) /\ ident[j + 1] = SP
    /\ ~Contains(ident, NUL)

\* C29: the parts of an identity.  Of an identity NAME, space, '<', EMAIL,
\* '>', space, DATE, PersonIdent::parse returns the name NAME, the email
\* EMAIL and the date DATE, and does not panic; of any other string it
\* returns one of the errors of an identity.
C29_IdentParts ==
    (call.done /\ call.f = "PersonIdent::parse")
        => LET ident == call.arg
           IN  IF \E i, j \in 1..Len(ident) : IdentShape(ident, i, j)
               THEN \A i, j \in 1..Len(ident) :
                        IdentShape(ident, i, j)
                            => /\ call.ret.err = ""
                               /\ call.ret.v = [name |-> SubSeq(ident, 1, i - 2),
                                                 email |-> SubSeq(ident, i + 1, j - 1),
                                                 date |-> SubSeq(ident, j + 2, Len(ident))]
               ELSE call.ret.err \in IdentErrors

\* after the commit that Parser::next returned as written, ChangeIter::next
\* has returned each change of the commit and has now been called once more
ChangesDone ==
    /\ ncalls = 1 /\ cmd.err = "" /\ cmd.c = stream[1].c
    /\ call.f = "ChangeIter::next" /\ call.at = 1 /\ call.good
    /\ call.n = Len(stream[1].changes) + 1

\* C30: the end of the changes.  On a directive that is not a change,
\* ChangeIter::next returns None and leaves the directive unread, and the
\* Parser::next that follows returns the command of that line; at the end of
\* the input ChangeIter::next returns None too.
C30_ChangesEnd ==
    /\ [](ChangesDone
             => /\ call.ret.err = "" /\ ~call.ret.some /\ ~parser.panicked
                /\ Len(stream) > 1 => parser.unread)
    /\ [][(ChangesDone /\ ncalls' = 2)
             => (cmd'.err = "" /\ cmd'.c = Expected(2))]_vars

\* C31: the preconditions of the lookahead.  No call of bump_directive,
\* unread_directive or BufInput::skip_optional_lf is made with its asserted
\* precondition false, whatever the input, one whose last line lacks its LF
\* included: none of the three assertions ever fails.
C31_LookaheadPreconditions ==
    parser.broke \notin {"bump_directive", "unread_directive", "skip_optional_lf"}

\* C32: the end of the source is sticky.  Input::read_line is never called
\* with the eof flag set, in the reading of directives, of whole messages,
\* in reads and in skips, whether the last line of the source has its LF or
\* not: the assertion at its start never fails.
C32_NoReadAfterEof == parser.broke # "read_line"

\* C33: Unfinished changes nothing.  A Parser::next that fails with
\* Unfinished leaves the parser as it was, the source, data_opened, finished,
\* closed and len_read included; and the Parser::next that follows it with no
\* call on the reader in between fails with Unfinished again.
C33_UnfinishedChangesNothing ==
    /\ [][(ncalls' = ncalls + 1 /\ cmd'.err = "Unfinished") => parser' = parser]_vars
    /\ [][(JustCalled /\ cmd.err = "Unfinished" /\ ncalls' = ncalls + 1)
             => cmd'.err = "Unfinished"]_vars

\* a second Parser::next in a row has failed with Unfinished, the payload of
\* the blob half read
C33_Witness ==
    /\ JustCalled /\ ncalls = 3 /\ cmd.err = "Unfinished"
    /\ cmd.before.opened /\ ~cmd.before.finished /\ cmd.before.at = cmd.at
    /\ parser.len_read > 0 /\ parser.r # <<>>

\* Parser::next has just returned the end of the input
AtEof == JustCalled /\ cmd.err = "" /\ cmd.c = Eof

\* C34: the end of the input is absorbing.  A Parser::next that follows one
\* that returned Done::Eof returns Done::Eof again; it reads no line (the
\* source is as it was and no line buffer is added) and no assertion fails.
C34_EofAbsorbing ==
    [][(AtEof /\ ncalls' = ncalls + 1)
          => /\ cmd'.err = "" /\ cmd'.c = Eof
             /\ ~parser'.panicked /\ parser'.broke = ""
             /\ parser'.r = parser.r /\ parser'.eof
             /\ Len(parser'.lines) <= Len(parser.lines)]_vars

\* Done::Eof has been returned a second time, after a last line that lacks
\* its LF
C34_Witness ==
    /\ AtEof /\ ncalls = Len(stream) + 2 /\ cmd.before.at = cmd.at
    /\ StreamText(stream)[Len(StreamText(stream))] # LF

\* a <= b for two u64 values, where a negative number stands for that number
\* plus 2^64
U64Leq(a, b) ==
    IF (a < 0) = (b < 0) THEN a <= b ELSE b < 0

\* the command in hand is a blob
BlobInHand == cmd.err = "" /\ cmd.c.kind = "Blob"

\* C35: the data stream's state.  Once the header of a blob is parsed, and
\* until the next header is: closed implies finished; len_read never
\* decreases; and for a counted payload len_read is at most len, and
\* finished holds exactly when len_read = len.
C35_DataState ==
    /\ [](BlobInHand
             => /\ parser.closed => parser.finished
                /\ parser.is_counted
                       => /\ U64Leq(parser.len_read, parser.len)
                          /\ parser.finished <=> parser.len_read = parser.len)
    /\ [][(BlobInHand /\ ncalls' = ncalls)
             => U64Leq(parser.len_read, parser'.len_read)]_vars

\* C36: the paths of file changes.  In M, D, R and C a path that is not a
\* C-quoted string is taken as it is written (for D and for the last
\* operand to the end of the line, spaces included) and a quoted one is
\* unquoted; in R and C a source with no space after it fails with
\* NoSpaceAfterSource, an empty destination with MissingDest, and bytes after
\* a quoted destination with JunkAfterDest.
C36_ChangePaths ==
    (call.f = "ChangeIter::next" /\ call.done /\ "expect" \in DOMAIN call)
        => call.ret = call.expect

\* what a top-level `ls` is to give for args: the error, or the root and the
\* path on either side of the first space; "" for the error where args is
\* beyond what is stated (a root that is no mark or oid, a quoted path that
\* is not a plain quoted string)
PlainQuoted(path) ==
    /\ Len(path) >= 2 /\ path[1] = DQUOTE /\ path[Len(path)] = DQUOTE
    /\ \A k \in 2..(Len(path) - 1) : path[k] \notin {DQUOTE, BACKSLASH}
LsStated(args) ==
    Let(IndexOf(args, SP), LAMBDA i :
    Let(SubSeq(args, 1, i - 1), LAMBDA root :
    Let(SubSeq(args, i + 1, Len(args)), LAMBDA path :
        IF args # <<>> /\ args[1] = DQUOTE THEN [err |-> "MissingLsRoot", stated |-> TRUE]
        ELSE IF i = 0 THEN [err |-> "MissingLsPath", stated |-> TRUE]
        ELSE IF Treeish_parse(root).err # "" THEN [err |-> "", stated |-> FALSE]
        ELSE IF path = <<>> THEN [err |-> "MissingLsPath", stated |-> TRUE]
        ELSE IF path[1] # DQUOTE
        THEN [err |-> "", stated |-> TRUE, root |-> Treeish_parse(root).v, path |-> path]
        ELSE IF PlainQuoted(path)
        THEN [err |-> "", stated |-> TRUE, root |-> Treeish_parse(root).v,
              path |-> SubSeq(path, 2, Len(path) - 1)]
        ELSE [err |-> "", stated |-> FALSE])))
TopLevelLs == call.f = "parse_ls" /\ call.done /\ "in_commit" \notin call.flags

\* C37: a top-level `ls ROOT PATH` parses to the root ROOT, the bytes before
\* the first space (a mark when it starts with a colon, an oid otherwise),
\* and the path PATH, the bytes after that space, unquoted when PATH is a
\* C-quoted string; an argument with no space or with an empty path fails
\* with MissingLsPath and a quoted first argument with MissingLsRoot.
C37_LsParts ==
    (TopLevelLs /\ LsStated(call.arg).stated)
        => /\ call.ret.err = LsStated(call.arg).err
           /\ call.ret.err = ""
                  => /\ call.ret.v.root = LsStated(call.arg).root
                     /\ call.ret.v.path = LsStated(call.arg).path

SubmodulesParsed == call.f = "parse_rewrite_submodules" /\ call.done

\* C38: the argument NAME:PATH of `feature rewrite-submodules-to=` and
\* `feature rewrite-submodules-from=` parses to submodule_name = NAME, the
\* bytes before the first colon, and marks_path = PATH, the bytes after that
\* colon; an argument with no colon fails with RewriteSubmodulesNoColon.
C38_SubmoduleParts ==
    (SubmodulesParsed /\ ~Contains(call.arg, NUL))
        => IF IndexOf(call.arg, COLON) = 0
           THEN call.ret.err = "RewriteSubmodulesNoColon"
           ELSE /\ call.ret.err = ""
                /\ call.ret.v.submodule_name
                       = SubSeq(call.arg, 1, IndexOf(call.arg, COLON) - 1)
                /\ call.ret.v.marks_path
                       = SubSeq(call.arg, IndexOf(call.arg, COLON) + 1, Len(call.arg))

(***************************************************************************)
(* The buffer pool on its own (pool.rs): the live buffers, oldest first,    *)
(* the free list, and an iterator over the pool.  call holds the pool, the  *)
(* last operation on it and what the iterator has returned so far.          *)
(***************************************************************************)
MAX_BUF_CAPACITY == 512
MAX_FREE_CAPACITY == 1024
MaxLive == 3
MaxPushes == 4
\* what the caller writes into the n-th buffer it pushes: the digit n
Numbered(n) == <<DIGIT0 + n>>

\* Vec::clear
clear(buf) == <<>>

\* BufPool::new, and no operation yet
BufPool_new ==
    [f |-> "BufPool", live |-> <<>>, free |-> <<>>, op |-> "new", k |-> 0, pushed |-> 0,
     recycled |-> None, filling |-> FALSE,
     iter |-> [on |-> FALSE, index |-> 0], item |-> None, seen |-> <<>>]

\* push_back, but for the clear
push_back_uncleared(pool) ==
    Let(IF pool.free = <<>> THEN <<>> ELSE pool.free[Len(pool.free)], LAMBDA buf :
        [live |-> Append(pool.live, buf), free |-> DropLast(pool.free)])

\* BufPool::push_back: the live and the free buffers after it
push_back(pool) ==
    Let(IF pool.free = <<>> THEN <<>> ELSE pool.free[Len(pool.free)], LAMBDA buf :
        [live |-> Append(pool.live, clear(buf)), free |-> DropLast(pool.free)])

\* BufPool::truncate_back: the live and the free buffers after it
RECURSIVE BufPool_truncate_back(_, _)
BufPool_truncate_back(pool, len) ==
    IF Len(pool.live) > len
    THEN BufPool_truncate_back(
             [live |-> Tail(pool.live),
              free |-> IF Len(pool.free) < MAX_FREE_CAPACITY
                          /\ Len(Head(pool.live)) <= MAX_BUF_CAPACITY
                       THEN Append(pool.free, Head(pool.live)) ELSE pool.free],
             len)
    ELSE [live |-> pool.live, free |-> pool.free]

\* BufPoolIter::next, for the iterator at index
BufPoolIter_next(pool, index) ==
    IF index < Len(pool.live) THEN Some(pool.live[index + 1]) ELSE None

InitPool ==
    /\ call = BufPool_new
    /\ debug = FALSE
    /\ stream = <<>>
    /\ parser = Parser_new(<<>>)
    /\ ncalls = 0
    /\ cmd = NoCmd
    /\ has_reader = FALSE
    /\ nopen = 0
    /\ result = NoResult
    /\ got = <<>>
    /\ twin = NoTwin

\* pool.push_back(); the caller holds the buffer it returns
PushBack ==
    /\ ~call.filling /\ Len(call.live) < MaxLive /\ call.pushed < MaxPushes
    /\ call' = [call EXCEPT !.live = push_back(call).live, !.free = push_back(call).free,
                            !.op = "push_back", !.filling = TRUE,
                            !.pushed = call.pushed + 1,
                            !.recycled = IF call.free = <<>> THEN None
                                         ELSE Some(call.free[Len(call.free)])]
    /\ UNCHANGED others

\* the caller writes into the buffer that push_back returned, or leaves it
CloneInto ==
    /\ call.filling
    /\ \E b \in {Numbered(call.pushed), <<>>} :
           call' = [call EXCEPT !.live[Len(call.live)] = b, !.op = "clone_into",
                                !.filling = FALSE]
    /\ UNCHANGED others

\* pool.truncate_back(k), which takes the pool from any iterator over it
TruncateBack ==
    /\ ~call.filling
    /\ \E k \in 0..(MaxLive + 1) :
           call' = [call EXCEPT !.live = BufPool_truncate_back(call, k).live,
                                !.free = BufPool_truncate_back(call, k).free,
                                !.op = "truncate_back", !.k = k,
                                !.iter = [on |-> FALSE, index |-> 0],
                                !.item = None, !.seen = <<>>]
    /\ UNCHANGED others

\* pool.iter()
Iter ==
    /\ ~call.filling
    /\ call' = [call EXCEPT !.op = "iter", !.iter = [on |-> TRUE, index |-> 0],
                            !.item = None, !.seen = <<>>]
    /\ UNCHANGED others

\* BufPoolIter::next on the iterator
IterNext ==
    /\ ~call.filling /\ call.iter.on /\ call.iter.index <= MaxLive
    /\ \E item \in {BufPoolIter_next(call, call.iter.index)} :
           call' = [call EXCEPT !.op = "next", !.iter.index = call.iter.index + 1,
                                !.item = item,
                                !.seen = IF item.some THEN Append(call.seen, item.v)
                                         ELSE call.seen]
    /\ UNCHANGED others

NextPool ==
    \/ PushBack
    \/ CloneInto
    \/ TruncateBack
    \/ Iter
    \/ IterNext

SpecPool == InitPool /\ [][NextPool]_vars

\* the latest m of the buffers bufs, in their order
Latest(bufs, m) == [i \in 1..m |-> bufs[Len(bufs) - m + i]]
\* the iterator has not returned None yet
Iterating == call.iter.on /\ call.iter.index = Len(call.seen)
\* the iterator has just returned None for the first time
IterEnded == call.op = "next" /\ ~call.item.some /\ call.iter.index = Len(call.seen) + 1

\* C39: truncate_back(k) on a pool of n buffers leaves the latest min(k, n)
\* buffers, in their order and with their contents; push_back appends an
\* empty buffer at the back, also when it takes the buffer from the free
\* list, and leaves the others as they are; an iterator returns the buffers
\* oldest first, those pushed meanwhile too, and has returned all of them
\* when it first returns None.
C39_PoolOrder ==
    /\ [][call'.op = "truncate_back"
              => call'.live = Latest(call.live, Min(call'.k, Len(call.live)))]_vars
    /\ [][call'.op = "push_back" => call'.live = Append(call.live, <<>>)]_vars
    /\ [](Iterating => call.seen = SubSeq(call.live, 1, Len(call.seen)))
    /\ [](IterEnded => call.seen = call.live)
\* push 1, 2, 3; truncate_back(2); push 4, into the buffer that held 1; the
\* iterator has returned 2, 3, 4 and then None
C39_Witness ==
    /\ IterEnded /\ call.k = 2
    /\ call.recycled = Some(Numbered(1))
    /\ call.seen = <<Numbered(2), Numbered(3), Numbered(4)>>

(***************************************************************************)
(* A caller that does nothing but call Parser::next, until it returns       *)
(* Done::Eof or fails, on every input of the specifications above: whole    *)
(* streams, streams with comment lines, streams cut short in a payload and  *)
(* commits with their changes left unparsed.                                *)
(***************************************************************************)
MaxPolls == 12

InitPoll ==
    \/ Init
    \/ InitC8
    \/ InitCut
    \/ InitChange

\* the last Parser::next returned Done::Eof, or failed
PollDone == ncalls >= 1 /\ (cmd.err # "" \/ cmd.c = Eof)

\* parser.next() once more, the last call having returned a command
Poll ==
    /\ ~PollDone
    /\ ~parser.panicked
    /\ ncalls < MaxPolls
    /\ \E o \in {Parser_next(parser)} :
           /\ parser' = o.p
           /\ cmd' = [err |-> o.err, c |-> o.c, at |-> o.p,
                      before |-> [blob |-> cmd.c.kind = "Blob",
                                  ok |-> /\ ncalls \in 1..Len(stream)
                                         /\ cmd.err = ""
                                         /\ cmd.c = stream[ncalls].c,
                                  opened |-> parser.data_opened,
                                  finished |-> parser.finished, skipped |-> result.skipped,
                                  got |-> got, at |-> cmd.at]]
    /\ twin' = IF twin.on /\ ~twin.p.panicked
               THEN Let(Parser_next(twin.p), LAMBDA t :
                        [twin EXCEPT !.p = t.p, !.err = t.err, !.c = t.c])
               ELSE twin
    /\ ncalls' = ncalls + 1
    /\ UNCHANGED <<debug, stream, call, has_reader, nopen, result, got>>

\* a call is due: Poll can be taken
PollDue == ~PollDone /\ ~parser.panicked /\ ncalls < MaxPolls

\* the caller goes on calling for as long as it gets commands: the steps
\* that count a call are the Poll steps, and one is taken whenever one is due
SpecPoll == InitPoll /\ [][Poll]_vars /\ WF_ncalls(PollDue /\ ncalls' = ncalls + 1)

\* what the parser has left to take: the bytes of the source, and the
\* directive that it has read ahead
Left(p) == 2 * Len(p.r) + (IF p.unread THEN 1 ELSE 0)

\* C40: on a finite input, a caller that calls next() again and again and
\* opens no reader gets Done::Eof or an error after finitely many calls:
\* every call that returns a command has taken a byte of the source or the
\* directive read ahead.
C40_Progress ==
    /\ <>PollDone
    /\ [][(ncalls' = ncalls + 1 /\ ~PollDone') => Left(parser') < Left(parser)]_vars
\* Done::Eof after a blob whose payload the call had to skip, in an input
\* with comment lines (the one that parser reads when it has a twin)
C40_Witness ==
    /\ PollDone /\ cmd.err = "" /\ ncalls >= 2
    /\ cmd.before.blob /\ ~cmd.before.finished
    /\ twin.on

====
